---------------------------- MODULE Spec2Model ----------------------------
(***************************************************************************)
(* State-machine model of the IT-department attendance server             *)
(* (server.js over the PostgreSQL schema of config/postgres.js).          *)
(*                                                                         *)
(* The state is the content of the tables the attendance logic reads and  *)
(* writes (classes, students, timetable_periods, attendance), the        *)
(* sequence that numbers timetable periods, the wall clock, the last      *)
(* JSON response and the last page rendered.  Every request handler is    *)
(* one action; the storage layer's constraints (UNIQUE, CHECK, FOREIGN    *)
(* KEY, ON DELETE CASCADE) are part of the statements the handlers issue. *)
(*                                                                         *)
(* Eleven specifications run the handlers: Spec (every handler that       *)
(* writes the tables, at one instant), SpecMark (timetable with breaks,   *)
(* moving clock, marking), SpecReport (the report page over histories of  *)
(* marks), SpecBulk (one client of the bulk editor and its report),       *)
(* SpecHistory (the history grid next to marks and edits), SpecRace (two  *)
(* requests whose statements interleave), SpecClock (the time resolver),  *)
(* SpecStudents (the admin's student handlers), SpecWindow (the history   *)
(* window over three weeks of dates), SpecEditor (bulk-editor requests    *)
(* with refused statuses) and SpecClasses (marks and edits across two     *)
(* classes).                                                              *)
(*                                                                         *)
(* attendance.id is never read for its value (it is only counted and      *)
(* tested for NULL), so an attendance row carries no id here: two rows    *)
(* that agree on (student_id, date, period_id) are told apart by `copy`.  *)
(*                                                                         *)
(* Encodings: ids are positive integers and SQL NULL is 0; a time of day  *)
(* is a number of minutes since midnight; a calendar date is a number of  *)
(* days since 1970-01-01 (a Thursday); the clock is a number of minutes   *)
(* since the epoch (Date.now() / 60000).                                  *)
(***************************************************************************)
EXTENDS Integers, Sequences, FiniteSets, TLC

VARIABLES
    classes,      \* table classes: set of [id, total_students]
    students,     \* table students: set of [id, class_id, roll_no] with
                  \* the register_id of the student's row in users
    periods,      \* table timetable_periods
    attendance,   \* table attendance
    periodSeq,    \* last value of timetable_periods_id_seq
    studentSeq,   \* last value of students_id_seq
    now,          \* Date.now(), in minutes since the epoch (UTC)
    timeOffset,   \* TIME_OFFSET_MINUTES, read once at start-up
    resp,         \* the last JSON response sent
    page,         \* the last page rendered (the rows of a report)
    req,          \* the body and query of the request a client of the
                  \* bulk editor submits (and may submit again)
    calls         \* the requests in flight whose handlers run statement
                  \* by statement: per call, its arguments, the statement
                  \* it is at, what it has read and its response

vars == <<classes, students, periods, attendance, periodSeq, now,
          timeOffset, studentSeq, resp, page, req, calls>>

\* what a handler that writes the database leaves alone
frame == <<now, timeOffset, studentSeq, page, req, calls>>

db == <<classes, students, periods, attendance, periodSeq>>

-----------------------------------------------------------------------------
(* Bounds of the model *)

\* timetable_periods_id_seq never exceeds this value in the model
MaxPeriodId == 2

\* the attendance table never holds more rows than this in the model
MaxRows == 2

\* longest list of changes a bulk update carries in the model
MaxChanges == 2

\* students_id_seq never exceeds this value in the model
MaxStudentId == 4

\* longest list of students a bulk upload carries in the model
MaxBatch == 2

\* the histories of marks a report is built over
MaxPresent == 3
MaxAbsent == 2
OlderRows == 10

-----------------------------------------------------------------------------
(* Program constants *)

NULL == 0

MinutesPerDay == 1440

\* getNowIST: 5.5 * 60 minutes east of UTC
ISTOffsetMinutes == 330

\* parseInt(process.env.TIME_OFFSET_MINUTES || '0', 10) || 0
DefaultTimeOffset == 0

\* 7 * 24 * 60 * 60 * 1000 ms and 30 * 24 * 60 * 60 * 1000 ms, in days
WeekDays == 7
MonthDays == 30

\* new Date(0).getUTCDay(): 1970-01-01 was a Thursday
EpochWeekday == 4

\* CHECK(status IN ('P', 'A'))
ValidStatus == {"P", "A"}

-----------------------------------------------------------------------------
(* Input domains *)

TeacherIds == {1, 2}
ClassIds == {1}
StudentIds == {1, 2}

\* dates a caller may send: day 46 is Monday 1970-02-16, day 38 the Sunday
\* eight days before it
Dates == {38, 46}

\* statuses a caller may send to mark-attendance
MarkStatuses == {"P", "A"}

\* statuses a caller may send in a bulk-update change ('' clears the day)
BulkStatuses == {"", "P", "A"}

\* what an admin may enter for a timetable period.  09:00-10:00 is the only
\* time window; two periods of one day may both have it
Windows == {<<540, 600>>}
PeriodDays == {1}
PeriodNumbers == {1, 2}
PeriodTeachers == {1, 2}

\* instants of the clock (UTC minutes): Monday 1970-02-16 at 09:00, 10:00 and
\* 10:01 IST, and the Tuesday after it at 09:30 IST
Mon0900 == 46 * MinutesPerDay + 210
Mon1000 == 46 * MinutesPerDay + 270
Mon1001 == 46 * MinutesPerDay + 271
Tue0930 == 47 * MinutesPerDay + 240

\* the date of that Monday
Today == Mon1000 \div MinutesPerDay

-----------------------------------------------------------------------------
(* Time Resolver *)

\* getNowIST
getNowIST == now + ISTOffsetMinutes + timeOffset

\* Date.prototype.getUTCDay of an instant given in minutes (0 = Sunday)
getUTCDay(m) == (EpochWeekday + (m \div MinutesPerDay)) % 7

\* Seeded fault: the weekday as getUTCDay gives it, Sunday = 0
getCurrentDayOfWeek_SundayZero == getUTCDay(getNowIST)

\* getCurrentDayOfWeek
getCurrentDayOfWeek ==
    LET dayOfWeek == getUTCDay(getNowIST)
    IN IF dayOfWeek = 0 THEN 7 ELSE dayOfWeek

\* String(n) of a number below 100: its decimal digits, as characters
DigitChars == <<"0", "1", "2", "3", "4", "5", "6", "7", "8", "9">>

String(n) ==
    IF n < 10 THEN <<DigitChars[n + 1]>>
    ELSE <<DigitChars[(n \div 10) + 1], DigitChars[(n % 10) + 1]>>

\* String.prototype.padStart(2, '0')
padStart(chars) == IF Len(chars) < 2 THEN <<"0">> \o chars ELSE chars

\* getCurrentTime: the "HH:MM" string, kept as its two numbers (what
\* PostgreSQL reads from it) and as its characters
getCurrentTime ==
    LET ist == getNowIST
        hours == (ist % MinutesPerDay) \div 60
        minutes == ist % 60
    IN [hours   |-> hours,
        minutes |-> minutes,
        text    |-> padStart(String(hours)) \o <<":">>
                        \o padStart(String(minutes))]

\* parseInt(process.env.TIME_OFFSET_MINUTES || '0', 10) || 0: the value of
\* the variable is unset, a decimal integer, or text parseInt gives NaN for
ParseOffset(env) ==
    IF env.kind = "integer" THEN env.value ELSE DefaultTimeOffset

\* PostgreSQL's cast of the "HH:MM" parameter to TIME, for comparison with
\* a TIME column
TimeOfDay(hm) == hm.hours * 60 + hm.minutes

-----------------------------------------------------------------------------
(* Period Matcher *)

\* Seeded fault: ORDER BY period_number DESC LIMIT 1
FirstByPeriodNumber_Descending(ps) ==
    {p \in ps : \A q \in ps : p.period_number >= q.period_number}

\* ORDER BY tp.period_number LIMIT 1 over a set of periods of one class and
\* day (period_number is unique there).  The result of a queryOne is kept as
\* a set: {} when it returns null, {row} otherwise
FirstByPeriodNumber(ps) ==
    {p \in ps : \A q \in ps : p.period_number <= q.period_number}

\* getCurrentPeriod(classId): the class-scoped matcher
getCurrentPeriod(classId) ==
    LET currentDay == getCurrentDayOfWeek
        currentTime == TimeOfDay(getCurrentTime)
    IN FirstByPeriodNumber({tp \in periods :
            /\ tp.class_id = classId
            /\ tp.day_of_week = currentDay
            /\ tp.start_time <= currentTime
            /\ tp.end_time >= currentTime})

\* Seeded fault: the teacher-scoped matcher without its is_break filter
TeacherCurrentPeriod_WithBreaks(classId, teacherId) ==
    LET currentDay == getCurrentDayOfWeek
        currentTime == TimeOfDay(getCurrentTime)
    IN FirstByPeriodNumber({tp \in periods :
            /\ tp.class_id = classId
            /\ tp.teacher_id = teacherId
            /\ tp.day_of_week = currentDay
            /\ tp.start_time <= currentTime
            /\ tp.end_time >= currentTime})

\* Seeded fault: the teacher-scoped matcher without its time window
TeacherCurrentPeriod_IgnoresTime(classId, teacherId) ==
    LET currentDay == getCurrentDayOfWeek
    IN FirstByPeriodNumber({tp \in periods :
            /\ tp.class_id = classId
            /\ tp.teacher_id = teacherId
            /\ tp.day_of_week = currentDay
            /\ tp.is_break = FALSE})

\* the teacher-scoped matcher of POST /teacher/mark-attendance
TeacherCurrentPeriod(classId, teacherId) ==
    LET currentDay == getCurrentDayOfWeek
        currentTime == TimeOfDay(getCurrentTime)
    IN FirstByPeriodNumber({tp \in periods :
            /\ tp.class_id = classId
            /\ tp.teacher_id = teacherId
            /\ tp.day_of_week = currentDay
            /\ tp.start_time <= currentTime
            /\ tp.end_time >= currentTime
            /\ tp.is_break = FALSE})

\* Seeded fault: the assignment query without its is_break filter
TeacherAssignment_WithBreaks(classId, teacherId) ==
    \E tp \in periods :
        /\ tp.class_id = classId
        /\ tp.teacher_id = teacherId

\* SELECT DISTINCT tp.id ... WHERE class_id = $1 AND teacher_id = $2 AND
\* is_break = false: whether the teacher teaches the class at all
TeacherAssignment(classId, teacherId) ==
    \E tp \in periods :
        /\ tp.class_id = classId
        /\ tp.teacher_id = teacherId
        /\ tp.is_break = FALSE

-----------------------------------------------------------------------------
(* Responses, pages and requests *)

\* nothing rendered yet
NoPage ==
    [view |-> "none", teacherId |-> NULL, classId |-> NULL,
     period |-> "full", report |-> <<>>]

\* no client of the bulk editor
NoRequest ==
    [teacherId |-> NULL, classId |-> NULL, changes |-> <<>>,
     period |-> "full"]

\* no request in flight
NoCalls == <<>>

Response(op, success, code, error, count) ==
    [op |-> op, success |-> success, code |-> code, error |-> error,
     count |-> count]

-----------------------------------------------------------------------------
(* Initial state: the database after initDatabase, the server started *)

Init ==
    /\ classes = {[id |-> 1, total_students |-> 2]}
    /\ students = {[id |-> 1, class_id |-> 1, roll_no |-> 1,
                    register_id |-> 1],
                   [id |-> 2, class_id |-> 1, roll_no |-> 2,
                    register_id |-> 2]}
    /\ periods = {}
    /\ attendance = {}
    /\ periodSeq = 0
    /\ now = Mon1000
    /\ timeOffset = DefaultTimeOffset
    /\ studentSeq = 2
    /\ resp = Response("start", TRUE, 200, "", 0)
    /\ page = NoPage
    /\ req = NoRequest
    /\ calls = NoCalls

-----------------------------------------------------------------------------
(* The clock *)

\* time passes: the clock moves on to a later one of the instants
Tick(instants) ==
    /\ \E t \in instants : t > now /\ now' = t
    /\ UNCHANGED <<db, timeOffset, studentSeq, resp, page, req, calls>>

-----------------------------------------------------------------------------
(* POST /api/timetable/period *)

SavePeriod(class_id, day_of_week, period_number, start_time, end_time, teacher_id, is_break) ==
    LET existing == {tp \in periods :
                        /\ tp.class_id = class_id
                        /\ tp.day_of_week = day_of_week
                        /\ tp.period_number = period_number}
    IN IF existing # {}
       THEN /\ periods' = (periods \ existing) \cup
                  {[tp EXCEPT !.start_time = start_time,
                              !.end_time = end_time,
                              !.teacher_id = teacher_id,
                              !.is_break = is_break] : tp \in existing}
            /\ resp' = Response("savePeriod", TRUE, 200, "", 0)
            /\ UNCHANGED <<classes, students, attendance, periodSeq, frame>>
       ELSE /\ periodSeq < MaxPeriodId
            /\ periodSeq' = periodSeq + 1
            /\ IF class_id \in {c.id : c \in classes}
               THEN /\ periods' = periods \cup
                          {[id |-> periodSeq + 1,
                            class_id |-> class_id,
                            day_of_week |-> day_of_week,
                            period_number |-> period_number,
                            start_time |-> start_time,
                            end_time |-> end_time,
                            teacher_id |-> teacher_id,
                            is_break |-> is_break]}
                    /\ resp' = Response("savePeriod", TRUE, 200, "", 0)
               ELSE \* timetable_periods.class_id REFERENCES classes(id)
                    /\ periods' = periods
                    /\ resp' = Response("savePeriod", FALSE, 200,
                                        "StorageError", 0)
            /\ UNCHANGED <<classes, students, attendance, frame>>

-----------------------------------------------------------------------------
(* DELETE /api/timetable/period/:periodId *)

\* Seeded fault: a delete of periods that leaves the attendance rows alone
CascadeDelete_NoCascade(rows, gone) == rows

\* DELETE FROM timetable_periods over the set gone, with the ON DELETE
\* CASCADE of attendance_period_id_fkey: the attendance rows that remain
CascadeDelete(rows, gone) ==
    {a \in rows : a.period_id \notin {tp.id : tp \in gone}}

DeletePeriod(periodId) ==
    LET periodDetails == {tp \in periods : tp.id = periodId}
        attendanceCount ==
            Cardinality({a \in attendance : a.period_id = periodId})
    IN IF periodDetails = {}
       THEN /\ resp' = Response("deletePeriod", FALSE, 404,
                                "Period not found", 0)
            /\ UNCHANGED <<db, frame>>
       ELSE /\ periods' = periods \ periodDetails
            /\ attendance' = CascadeDelete(attendance, periodDetails)
            /\ resp' = Response("deletePeriod", TRUE, 200, "",
                                attendanceCount)
            /\ UNCHANGED <<classes, students, periodSeq, frame>>

-----------------------------------------------------------------------------
(* POST /teacher/mark-attendance *)

\* the attendance table grows to at most MaxRows rows
WithinRows(rows) ==
    \/ Cardinality(rows) <= MaxRows
    \/ Cardinality(rows) <= Cardinality(attendance)

\* the `copy` of a new row: the least one not taken by a row with the same
\* (student_id, date, period_id)
FreshCopy(rows, studentId, date, periodId) ==
    LET taken == {a.copy : a \in {x \in rows : /\ x.student_id = studentId
                                              /\ x.date = date
                                              /\ x.period_id = periodId}}
    IN CHOOSE n \in 1..(Cardinality(taken) + 1) : n \notin taken

\* Seeded fault: the insert with ON CONFLICT DO NOTHING
UpsertAttendance_DoNothing(rows, studentId, classId, periodId, date, status, markedBy) ==
    LET conflict == {a \in rows : /\ a.student_id = studentId
                                  /\ a.date = date
                                  /\ a.period_id = periodId}
    IN IF status \notin ValidStatus \/ studentId \notin {s.id : s \in students}
       THEN [ok |-> FALSE, rows |-> rows]
       ELSE IF conflict # {}
       THEN [ok |-> TRUE, rows |-> rows]
       ELSE [ok |-> TRUE,
             rows |-> rows \cup
                 {[student_id |-> studentId, class_id |-> classId,
                   period_id |-> periodId, date |-> date,
                   status |-> status, marked_by |-> markedBy,
                   copy |-> FreshCopy(rows, studentId, date, periodId)]}]

\* Seeded fault: the insert without a unique constraint to conflict with
UpsertAttendance_NoConstraint(rows, studentId, classId, periodId, date, status, markedBy) ==
    IF status \notin ValidStatus \/ studentId \notin {s.id : s \in students}
    THEN [ok |-> FALSE, rows |-> rows]
    ELSE [ok |-> TRUE,
          rows |-> rows \cup
              {[student_id |-> studentId, class_id |-> classId,
                period_id |-> periodId, date |-> date,
                status |-> status, marked_by |-> markedBy,
                copy |-> FreshCopy(rows, studentId, date, periodId)]}]

\* Seeded fault: the insert without the foreign key on period_id
UpsertAttendance_NoPeriodKey(rows, studentId, classId, periodId, date, status, markedBy) ==
    LET conflict == {a \in rows : /\ a.student_id = studentId
                                  /\ a.date = date
                                  /\ a.period_id = periodId}
    IN IF status \notin ValidStatus
       THEN [ok |-> FALSE, rows |-> rows]
       ELSE IF conflict # {}
       THEN [ok |-> TRUE,
             rows |-> (rows \ conflict) \cup
                 {[a EXCEPT !.status = status, !.marked_by = markedBy] :
                      a \in conflict}]
       ELSE IF studentId \notin {s.id : s \in students}
       THEN [ok |-> FALSE, rows |-> rows]
       ELSE [ok |-> TRUE,
             rows |-> rows \cup
                 {[student_id |-> studentId, class_id |-> classId,
                   period_id |-> periodId, date |-> date,
                   status |-> status, marked_by |-> markedBy,
                   copy |-> FreshCopy(rows, studentId, date, periodId)]}]

\* INSERT INTO attendance ... ON CONFLICT (student_id, date, period_id)
\* DO UPDATE SET status, marked_by: the outcome of the statement on the
\* table rows.  The CHECK on status is tested on the proposed row before the
\* conflict is looked for; the foreign keys on student_id and period_id
\* when a row is inserted.
UpsertAttendance(rows, studentId, classId, periodId, date, status, markedBy) ==
    LET conflict == {a \in rows : /\ a.student_id = studentId
                                  /\ a.date = date
                                  /\ a.period_id = periodId}
    IN IF status \notin ValidStatus
       THEN [ok |-> FALSE, rows |-> rows]
       ELSE IF conflict # {}
       THEN [ok |-> TRUE,
             rows |-> (rows \ conflict) \cup
                 {[a EXCEPT !.status = status, !.marked_by = markedBy] :
                      a \in conflict}]
       ELSE IF \/ studentId \notin {s.id : s \in students}
               \/ periodId \notin {tp.id : tp \in periods}
       THEN [ok |-> FALSE, rows |-> rows]
       ELSE [ok |-> TRUE,
             rows |-> rows \cup
                 {[student_id |-> studentId, class_id |-> classId,
                   period_id |-> periodId, date |-> date,
                   status |-> status, marked_by |-> markedBy,
                   copy |-> FreshCopy(rows, studentId, date, periodId)]}]

MarkAttendance(teacherId, classId, studentId, date, status) ==
    LET currentPeriod == TeacherCurrentPeriod(classId, teacherId)
    IN IF currentPeriod = {}
       THEN /\ resp' = Response("mark", FALSE, 200, "NoActivePeriod", 0)
            /\ UNCHANGED <<db, frame>>
       ELSE LET cp == CHOOSE tp \in currentPeriod : TRUE
                r == UpsertAttendance(attendance, studentId, classId, cp.id,
                                      date, status, teacherId)
            IN /\ WithinRows(r.rows)
               /\ attendance' = r.rows
               /\ resp' = IF r.ok
                          THEN Response("mark", TRUE, 200, "", 0)
                          ELSE Response("mark", FALSE, 200,
                                        "Failed to mark attendance", 0)
               /\ UNCHANGED <<classes, students, periods, periodSeq, frame>>

-----------------------------------------------------------------------------
(* POST /api/attendance/bulk-update *)

\* Seeded fault: an iteration that inserts without looking for a row
ApplyChange_InsertOnly(rows, change, teacherId) ==
    IF change.status = ""
    THEN [ok |-> TRUE,
          rows |-> {a \in rows : ~(/\ a.student_id = change.studentId
                                   /\ a.date = change.date)}]
    ELSE [ok |-> TRUE,
          rows |-> rows \cup
              {[student_id |-> change.studentId, class_id |-> NULL,
                period_id |-> NULL, date |-> change.date,
                status |-> change.status, marked_by |-> teacherId,
                copy |-> FreshCopy(rows, change.studentId, change.date,
                                   NULL)]}]

\* Seeded fault: an iteration whose delete spares the rows of a period
ApplyChange_KeepsMarks(rows, change, teacherId) ==
    IF change.status = ""
    THEN [ok |-> TRUE,
          rows |-> {a \in rows : ~(/\ a.student_id = change.studentId
                                   /\ a.date = change.date
                                   /\ a.period_id = NULL)}]
    ELSE [ok |-> TRUE,
          rows |-> {IF a.student_id = change.studentId /\ a.date = change.date
                    THEN [a EXCEPT !.status = change.status]
                    ELSE a : a \in rows}]

\* Seeded fault: an update of the day's rows that also makes the editing
\* teacher their marker
ApplyChange_TakesOver(rows, change, teacherId) ==
    LET sameDay == {a \in rows : /\ a.student_id = change.studentId
                                 /\ a.date = change.date}
    IN IF change.status = ""
       THEN [ok |-> TRUE, rows |-> rows \ sameDay]
       ELSE IF change.status \notin ValidStatus
       THEN [ok |-> FALSE, rows |-> rows]
       ELSE IF sameDay # {}
       THEN [ok |-> TRUE,
             rows |-> (rows \ sameDay) \cup
                 {[a EXCEPT !.status = change.status,
                            !.marked_by = teacherId] : a \in sameDay}]
       ELSE IF change.studentId \in {s.id : s \in students}
       THEN [ok |-> TRUE,
             rows |-> rows \cup
                 {[student_id |-> change.studentId, class_id |-> NULL,
                   period_id |-> NULL, date |-> change.date,
                   status |-> change.status, marked_by |-> teacherId,
                   copy |-> FreshCopy(rows, change.studentId, change.date,
                                      NULL)]}]
       ELSE [ok |-> FALSE, rows |-> rows]

\* one iteration of the loop over changes: [ok, rows], ok = FALSE when the
\* statement raised a storage error (rows are then as before the statement)
ApplyChange(rows, change, teacherId) ==
    LET sameDay == {a \in rows : /\ a.student_id = change.studentId
                                 /\ a.date = change.date}
    IN IF change.status = ""
       THEN [ok |-> TRUE, rows |-> rows \ sameDay]
       ELSE IF sameDay # {}
       THEN IF change.status \in ValidStatus
            THEN [ok |-> TRUE,
                  rows |-> (rows \ sameDay) \cup
                      {[a EXCEPT !.status = change.status] : a \in sameDay}]
            ELSE [ok |-> FALSE, rows |-> rows]
       ELSE IF /\ change.status \in ValidStatus
               /\ change.studentId \in {s.id : s \in students}
       THEN [ok |-> TRUE,
             rows |-> rows \cup
                 {[student_id |-> change.studentId, class_id |-> NULL,
                   period_id |-> NULL, date |-> change.date,
                   status |-> change.status, marked_by |-> teacherId,
                   copy |-> FreshCopy(rows, change.studentId, change.date,
                                      NULL)]}]
       ELSE [ok |-> FALSE, rows |-> rows]

\* Seeded fault: a loop that goes on with the next change after a statement
\* has thrown
RECURSIVE ApplyChanges_SkipsFailed(_, _, _, _)
ApplyChanges_SkipsFailed(rows, changes, teacherId, updatedCount) ==
    IF changes = <<>>
    THEN [ok |-> TRUE, rows |-> rows, updatedCount |-> updatedCount]
    ELSE LET r == ApplyChange(rows, Head(changes), teacherId)
             rest == ApplyChanges_SkipsFailed(r.rows, Tail(changes),
                                              teacherId, updatedCount + 1)
         IN [ok |-> r.ok /\ rest.ok, rows |-> rest.rows,
             updatedCount |-> rest.updatedCount]

\* for (const change of changes) { ... updatedCount++ }: the rows and the
\* count when the loop ends or a statement throws
RECURSIVE ApplyChanges(_, _, _, _)
ApplyChanges(rows, changes, teacherId, updatedCount) ==
    IF changes = <<>>
    THEN [ok |-> TRUE, rows |-> rows, updatedCount |-> updatedCount]
    ELSE LET r == ApplyChange(rows, Head(changes), teacherId)
         IN IF r.ok
            THEN ApplyChanges(r.rows, Tail(changes), teacherId,
                              updatedCount + 1)
            ELSE [ok |-> FALSE, rows |-> r.rows,
                  updatedCount |-> updatedCount]

BulkUpdate(teacherId, classId, changes) ==
    IF ~TeacherAssignment(classId, teacherId)
    THEN /\ resp' = Response("bulk", FALSE, 403,
                             "Access denied to this class", 0)
         /\ UNCHANGED <<db, frame>>
    ELSE LET r == ApplyChanges(attendance, changes, teacherId, 0)
         IN /\ WithinRows(r.rows)
            /\ attendance' = r.rows
            /\ resp' = IF r.ok
                       THEN Response("bulk", TRUE, 200, "", r.updatedCount)
                       ELSE Response("bulk", FALSE, 500, "StorageError", 0)
            /\ UNCHANGED <<classes, students, periods, periodSeq, frame>>

-----------------------------------------------------------------------------
(* DELETE /admin/students/delete/:id *)

\* UPDATE classes SET total_students = (SELECT COUNT(*) FROM students WHERE
\* class_id = $1) WHERE id = $1
RecountClass(cls, studs, classId) ==
    {IF c.id = classId
     THEN [c EXCEPT !.total_students =
               Cardinality({s \in studs : s.class_id = classId})]
     ELSE c : c \in cls}

DeleteStudent(student_id) ==
    LET student == {s \in students : s.id = student_id}
    IN /\ IF student = {}
          THEN UNCHANGED <<classes, students, attendance>>
          ELSE LET st == CHOOSE s \in student : TRUE
               IN /\ attendance' =
                      {a \in attendance : a.student_id # student_id}
                  /\ students' = students \ student
                  /\ classes' = RecountClass(classes, students \ student,
                                             st.class_id)
       /\ resp' = Response("deleteStudent", TRUE, 200, "", 0)
       /\ UNCHANGED <<periods, periodSeq, frame>>

-----------------------------------------------------------------------------
(* POST /admin/students/add-individual and POST /admin/students/add *)

\* what the frame of a student handler leaves alone
studentFrame == <<periods, attendance, periodSeq, now, timeOffset, page,
                  req, calls>>

\* INSERT INTO users ...; INSERT INTO students ...: the students with the
\* new row
InsertStudent(studs, seq, classId, student) ==
    studs \cup {[id |-> seq + 1, class_id |-> classId,
                 roll_no |-> student.roll_no,
                 register_id |-> student.register_id]}

\* SELECT id FROM students WHERE roll_no = $1 AND class_id = $2
existingStudent(studs, classId, student) ==
    \E s \in studs : s.roll_no = student.roll_no /\ s.class_id = classId

\* SELECT id FROM users WHERE register_id = $1
existingRegister(studs, student) ==
    \E s \in studs : s.register_id = student.register_id

\* POST /admin/students/add-individual
AddStudent(classId, student) ==
    IF existingStudent(students, classId, student)
    THEN /\ resp' = Response("addStudent", FALSE, 200,
                             "Roll number already exists in this class", 0)
         /\ UNCHANGED <<classes, students, studentSeq, studentFrame>>
    ELSE IF existingRegister(students, student)
    THEN /\ resp' = Response("addStudent", FALSE, 200,
                             "Register ID already exists", 0)
         /\ UNCHANGED <<classes, students, studentSeq, studentFrame>>
    ELSE /\ studentSeq < MaxStudentId
         /\ studentSeq' = studentSeq + 1
         /\ IF classId \in {c.id : c \in classes}
            THEN /\ students' = InsertStudent(students, studentSeq, classId,
                                              student)
                 /\ classes' = RecountClass(classes, students', classId)
                 /\ resp' = Response("addStudent", TRUE, 200, "", 0)
            ELSE \* students.class_id REFERENCES classes(id)
                 /\ resp' = Response("addStudent", FALSE, 200,
                                     "StorageError", 0)
                 /\ UNCHANGED <<classes, students>>
         /\ UNCHANGED studentFrame

\* for (const student of studentsArray) { ... }: the students and the
\* sequence when the loop ends or throws
RECURSIVE AddStudents(_, _, _, _)
AddStudents(studs, seq, classId, studentsArray) ==
    IF studentsArray = <<>>
    THEN [ok |-> TRUE, error |-> "", students |-> studs, seq |-> seq]
    ELSE LET student == Head(studentsArray)
         IN IF existingStudent(studs, classId, student)
            THEN [ok |-> FALSE,
                  error |-> "Roll number already exists in this class",
                  students |-> studs, seq |-> seq]
            ELSE IF existingRegister(studs, student)
            THEN [ok |-> FALSE, error |-> "Register ID already exists",
                  students |-> studs, seq |-> seq]
            ELSE IF classId \notin {c.id : c \in classes}
            THEN [ok |-> FALSE, error |-> "StorageError",
                  students |-> studs, seq |-> seq + 1]
            ELSE AddStudents(InsertStudent(studs, seq, classId, student),
                             seq + 1, classId, Tail(studentsArray))

\* POST /admin/students/add: the count of the class is updated after the
\* loop, when the loop has not thrown
BulkAddStudents(classId, studentsArray) ==
    LET r == AddStudents(students, studentSeq, classId, studentsArray)
    IN /\ r.seq <= MaxStudentId
       /\ students' = r.students
       /\ studentSeq' = r.seq
       /\ IF r.ok
          THEN /\ classes' = RecountClass(classes, r.students, classId)
               /\ resp' = Response("addStudents", TRUE, 200, "", 0)
          ELSE /\ resp' = Response("addStudents", FALSE, 200, r.error, 0)
               /\ UNCHANGED classes
       /\ UNCHANGED studentFrame

-----------------------------------------------------------------------------
(* Class deletion *)

\* attendance.student_id REFERENCES students(id): DELETE FROM students
\* WHERE class_id = $1 is refused while a row of rows references one of them
StudentsStillReferenced(rows, studs, classId) ==
    \E a \in rows : \E s \in studs :
        s.class_id = classId /\ a.student_id = s.id

\* the foreign keys on classes(id): DELETE FROM classes WHERE id = $1 is
\* refused while a student, a period or an attendance row references it
ClassStillReferenced(rows, studs, pers, classId) ==
    \/ \E s \in studs : s.class_id = classId
    \/ \E tp \in pers : tp.class_id = classId
    \/ \E a \in rows : a.class_id = classId

\* DELETE /api/admin/class/:classId
DeleteClassApi(classId) ==
    LET gone == {tp \in periods : tp.class_id = classId}
        rows1 == CascadeDelete(attendance, gone)
        pers1 == periods \ gone
        studs2 == {s \in students : s.class_id # classId}
    IN IF classId \notin {c.id : c \in classes}
       THEN /\ resp' = Response("deleteClassApi", FALSE, 200,
                                "Class not found", 0)
            /\ UNCHANGED <<db, frame>>
       ELSE /\ periods' = pers1
            /\ attendance' = rows1
            /\ IF StudentsStillReferenced(rows1, students, classId)
               THEN /\ resp' = Response("deleteClassApi", FALSE, 200,
                                        "StorageError", 0)
                    /\ UNCHANGED <<classes, students>>
               ELSE /\ students' = studs2
                    /\ IF ClassStillReferenced(rows1, studs2, pers1, classId)
                       THEN /\ resp' = Response("deleteClassApi", FALSE, 200,
                                                "StorageError", 0)
                            /\ UNCHANGED classes
                       ELSE /\ classes' = {c \in classes : c.id # classId}
                            /\ resp' = Response("deleteClassApi", TRUE, 200,
                                                "", 0)
            /\ UNCHANGED <<periodSeq, frame>>

\* DELETE /admin/classes/delete/:id
DeleteClass(class_id) ==
    LET rows1 == {a \in attendance : a.class_id # class_id}
        studs2 == {s \in students : s.class_id # class_id}
    IN /\ attendance' = rows1
       /\ IF StudentsStillReferenced(rows1, students, class_id)
          THEN /\ resp' = Response("deleteClass", FALSE, 200,
                                   "StorageError", 0)
               /\ UNCHANGED <<classes, students>>
          ELSE /\ students' = studs2
               /\ IF ClassStillReferenced(rows1, studs2, periods, class_id)
                  THEN /\ resp' = Response("deleteClass", FALSE, 200,
                                           "StorageError", 0)
                       /\ UNCHANGED classes
                  ELSE /\ classes' = {c \in classes : c.id # class_id}
                       /\ resp' = Response("deleteClass", TRUE, 200, "", 0)
       /\ UNCHANGED <<periods, periodSeq, frame>>

\* DELETE /api/admin/class/:classId/periods
DeleteAllPeriods(classId) ==
    LET gone == {tp \in periods : tp.class_id = classId}
    IN IF classId \notin {c.id : c \in classes}
       THEN /\ resp' = Response("deleteAllPeriods", FALSE, 200,
                                "Class not found", 0)
            /\ UNCHANGED <<db, frame>>
       ELSE /\ periods' = periods \ gone
            /\ attendance' = CascadeDelete(attendance, gone)
            /\ resp' = Response("deleteAllPeriods", TRUE, 200, "",
                                Cardinality(gone))
            /\ UNCHANGED <<classes, students, periodSeq, frame>>

-----------------------------------------------------------------------------
(* GET /teacher/reports/:classId *)

\* new Date(today.getTime() - days * 24 * 60 * 60 * 1000).toISOString()
\* .split('T')[0]: the UTC calendar date `days` days before now
DaysAgo(days) == (now - days * MinutesPerDay) \div MinutesPerDay

\* FROM students s LEFT JOIN attendance a ON s.id = a.student_id
\*                 LEFT JOIN timetable_periods tp ON a.period_id = tp.id
\* WHERE s.class_id = $1.  A joined row is a student with a set a of at most
\* one attendance row and a set tp of at most one period ({} is the
\* NULL-extended side of a LEFT JOIN).
ReportJoin(classId) ==
    LET inClass == {st \in students : st.class_id = classId}
        PeriodOf(att) == {tp \in periods : tp.id = att.period_id}
        matched == {sa \in inClass \X attendance :
                        sa[2].student_id = sa[1].id}
        unmatched == {st \in inClass :
                          \A att \in attendance : att.student_id # st.id}
    IN {[s |-> sa[1], a |-> {sa[2]}, tp |-> PeriodOf(sa[2])] :
            sa \in matched}
           \cup {[s |-> st, a |-> {}, tp |-> {}] : st \in unmatched}

\* AND (tp.teacher_id = $2 OR a.id IS NULL)
\* [AND (a.id IS NULL OR a.date >= $3)]
ReportWhere(j, teacherId, period) ==
    /\ \/ \E tp \in j.tp : tp.teacher_id = teacherId
       \/ j.a = {}
    /\ \/ period \notin {"week", "month"}
       \/ j.a = {}
       \/ \E att \in j.a :
              att.date >= DaysAgo(IF period = "week" THEN WeekDays
                                  ELSE MonthDays)

\* Seeded fault: the percentage cut to two decimals instead of rounded
Percentage_Truncated(present, total) ==
    IF total = 0 THEN <<>> ELSE <<(present * 10000) \div total>>

\* ROUND(present * 100.0 / NULLIF(total, 0), 2): NULL (<<>>) when total is
\* 0, else the one-element tuple of the percentage in hundredths, rounded
\* half away from zero
Percentage(present, total) ==
    IF total = 0 THEN <<>>
    ELSE <<(2 * present * 10000 + total) \div (2 * total)>>

\* GROUP BY s.id, s.roll_no, s.student_name with the SELECT list
ReportRow(st, group) ==
    LET rows == UNION {j.a : j \in group}
        present == Cardinality({att \in rows : att.status = "P"})
        absent == Cardinality({att \in rows : att.status = "A"})
    IN [student_id |-> st.id,
        roll_no |-> st.roll_no,
        total_days |-> Cardinality(rows),
        present_days |-> present,
        absent_days |-> absent,
        attendance_percentage |-> Percentage(present, Cardinality(rows))]

\* ORDER BY s.roll_no over the rows of one class (roll_no is unique there)
RECURSIVE OrderByRollNo(_)
OrderByRollNo(rows) ==
    IF rows = {} THEN <<>>
    ELSE LET first == CHOOSE r \in rows :
                          \A q \in rows : r.roll_no <= q.roll_no
         IN <<first>> \o OrderByRollNo(rows \ {first})

\* the report query
ReportQuery(classId, teacherId, period) ==
    LET kept == {j \in ReportJoin(classId) :
                     ReportWhere(j, teacherId, period)}
    IN OrderByRollNo({ReportRow(st, {j \in kept : j.s = st}) :
                          st \in {j.s : j \in kept}})

ReportPeriods == {"week", "month", "full"}

BuildReport(teacherId, classId, period) ==
    /\ IF ~TeacherAssignment(classId, teacherId)
       THEN page' = [view |-> "redirect", teacherId |-> teacherId,
                     classId |-> classId, period |-> period,
                     report |-> <<>>]
       ELSE page' = [view |-> "reports", teacherId |-> teacherId,
                     classId |-> classId, period |-> period,
                     report |-> ReportQuery(classId, teacherId, period)]
    /\ UNCHANGED <<db, now, timeOffset, studentSeq, resp, req, calls>>

-----------------------------------------------------------------------------
(* GET /teacher/attendance/:classId/history: the attendance grid *)

\* process.env.TZ = 'Asia/Kolkata': local time is 330 minutes east of UTC
LocalOffsetMinutes == 330

\* the cell key 'general' (the other cell keys, period ids, are positive)
General == 0

\* the value null of a cell that no record has filled
NoMark == "null"

\* new Date('YYYY-MM-DD'): midnight UTC of the date
DateFromString(date) == date * MinutesPerDay

\* new Date(year, month, day) and node-postgres' value of a DATE column:
\* local midnight of the date
LocalMidnight(date) == date * MinutesPerDay - LocalOffsetMinutes

\* Date.prototype.getDay: the weekday in local time (0 = Sunday)
getDay(m) == getUTCDay(m + LocalOffsetMinutes)

\* formatDateLocal: the local calendar date of an instant
formatDateLocal(m) == (m + LocalOffsetMinutes) \div MinutesPerDay

\* d.setDate(d.getDate() + n): n local days later (Asia/Kolkata has no DST)
setDate(m, n) == m + n * MinutesPerDay

\* lengths of January, February and March 1970, the months the dates of
\* the model fall in
MonthLengths == <<31, 28, 31>>

\* the date of the first day of a month
RECURSIVE FirstOfMonth(_)
FirstOfMonth(month) ==
    IF month = 1 THEN 0
    ELSE FirstOfMonth(month - 1) + MonthLengths[month - 1]

\* getMonth of a local date (1 = January 1970)
getMonth(date) ==
    CHOOSE month \in DOMAIN MonthLengths :
        /\ FirstOfMonth(month) <= date
        /\ date < FirstOfMonth(month) + MonthLengths[month]

\* Seeded fault: a week window whose Sunday opens the next week
HistoryWindow_SundayOpensWeek(view, date) ==
    LET currentDate == IF date # NULL THEN DateFromString(date) ELSE now
        startDate == setDate(currentDate, 1 - getDay(currentDate))
    IN [startDate |-> startDate,
        endDate |-> setDate(startDate, 6),
        dates |-> [i \in 1..7 |->
                      formatDateLocal(setDate(startDate, i - 1))]]

\* startDate, endDate and dates of the view around the selected date (the
\* current instant when the query has no date)
HistoryWindow(view, date) ==
    LET currentDate == IF date # NULL THEN DateFromString(date) ELSE now
    IN IF view = "week"
       THEN LET dayOfWeek == getDay(currentDate)
                daysToMonday == IF dayOfWeek = 0 THEN -6 ELSE 1 - dayOfWeek
                startDate == setDate(currentDate, daysToMonday)
            IN [startDate |-> startDate,
                endDate |-> setDate(startDate, 6),
                dates |-> [i \in 1..7 |->
                              formatDateLocal(setDate(startDate, i - 1))]]
       ELSE LET month == getMonth(formatDateLocal(currentDate))
                first == FirstOfMonth(month)
                daysInMonth == MonthLengths[month]
            IN [startDate |-> LocalMidnight(first),
                endDate |-> LocalMidnight(first + daysInMonth - 1),
                dates |-> [i \in 1..daysInMonth |->
                              formatDateLocal(LocalMidnight(first + i - 1))]]

\* prevDate and nextDate of the view: the week before and the week after
\* the window's first day, or the first days of the months around the
\* selected date's month
NavigationDates(view, date, startDate) ==
    LET currentDate == IF date # NULL THEN DateFromString(date) ELSE now
        month == getMonth(formatDateLocal(currentDate))
    IN IF view = "week"
       THEN [prevDate |-> setDate(startDate, -7),
             nextDate |-> setDate(startDate, 7)]
       ELSE [prevDate |-> LocalMidnight(FirstOfMonth(month - 1)),
             nextDate |-> LocalMidnight(FirstOfMonth(month + 1))]

\* the teacher's timetable periods for the class
teacherPeriodsOnSameDays(teacherId, classId) ==
    {tp \in periods :
        /\ tp.teacher_id = teacherId
        /\ tp.class_id = classId
        /\ tp.is_break = FALSE
        /\ \E c \in classes : c.id = tp.class_id}

\* the attendance records of the class's students between startDate and
\* endDate
attendanceRecords(classId, w) ==
    {a \in attendance :
        /\ \E st \in students :
              st.id = a.student_id /\ st.class_id = classId
        /\ a.date >= formatDateLocal(w.startDate)
        /\ a.date <= formatDateLocal(w.endDate)}

\* Seeded fault: the initialisation without its 'general' entry
GridInitialised_NoGeneral(teacherId, classId, dates) ==
    [s \in {st.id : st \in {x \in students : x.class_id = classId}} |->
        [d \in {dates[i] : i \in DOMAIN dates} |->
            LET dayOfWeek == getDay(DateFromString(d))
                adjustedDayOfWeek == IF dayOfWeek = 0 THEN 7 ELSE dayOfWeek
                periodsForThisDay ==
                    {period \in teacherPeriodsOnSameDays(teacherId, classId) :
                        period.day_of_week = adjustedDayOfWeek}
            IN [k \in {period.id : period \in periodsForThisDay} |-> NoMark]]]

\* the grid after its initialisation: per student and date, one empty cell
\* per period the teacher has on the date's weekday, or the 'general' cell
GridInitialised(teacherId, classId, dates) ==
    [s \in {st.id : st \in {x \in students : x.class_id = classId}} |->
        [d \in {dates[i] : i \in DOMAIN dates} |->
            LET dayOfWeek == getDay(DateFromString(d))
                adjustedDayOfWeek == IF dayOfWeek = 0 THEN 7 ELSE dayOfWeek
                periodsForThisDay ==
                    {period \in teacherPeriodsOnSameDays(teacherId, classId) :
                        period.day_of_week = adjustedDayOfWeek}
            IN IF periodsForThisDay # {}
               THEN [k \in {period.id : period \in periodsForThisDay} |->
                        NoMark]
               ELSE [k \in {General} |-> NoMark]]]

\* the status a cell is left with by the records written to it: the one
\* written last.  ORDER BY date, roll_no leaves the order of the records of
\* one student and date open; `last` is the status the order favours
LastWritten(records, last) ==
    IF \E r \in records : r.status = last THEN last
    ELSE (CHOOSE r \in records : TRUE).status

\* Seeded fault: the overlay that writes every record to the 'general' cell
GridFilled_AllGeneral(grid, records, last) ==
    [s \in DOMAIN grid |->
        LET mine == {r \in records : r.student_id = s}
            recordDate(r) == formatDateLocal(LocalMidnight(r.date))
        IN [d \in DOMAIN grid[s] \cup {recordDate(r) : r \in mine} |->
               LET cells == IF d \in DOMAIN grid[s] THEN grid[s][d] ELSE <<>>
                   onDate == {r \in mine : recordDate(r) = d}
               IN [k \in DOMAIN cells \cup
                         (IF onDate # {} THEN {General} ELSE {}) |->
                      IF k = General /\ onDate # {}
                      THEN LastWritten(onDate, last)
                      ELSE cells[k]]]]

\* the grid after the records are filled in: a record goes to the cell of
\* its period when the cell was initialised, to 'general' otherwise
GridFilled(grid, records, last) ==
    [s \in DOMAIN grid |->
        LET mine == {r \in records : r.student_id = s}
            recordDate(r) == formatDateLocal(LocalMidnight(r.date))
        IN [d \in DOMAIN grid[s] \cup {recordDate(r) : r \in mine} |->
               LET cells == IF d \in DOMAIN grid[s] THEN grid[s][d] ELSE <<>>
                   onDate == {r \in mine : recordDate(r) = d}
                   byPeriod(k) ==
                       {r \in onDate : r.period_id # NULL /\ r.period_id = k}
                   fallback ==
                       {r \in onDate :
                           ~(/\ r.period_id # NULL
                             /\ r.period_id \in DOMAIN cells)}
               IN [k \in DOMAIN cells \cup
                         (IF fallback # {} THEN {General} ELSE {}) |->
                      IF k = General
                      THEN IF fallback # {}
                           THEN LastWritten(fallback, last)
                           ELSE cells[k]
                      ELSE IF byPeriod(k) # {}
                           THEN LastWritten(byPeriod(k), last)
                           ELSE cells[k]]]]

HistoryViews == {"week", "month"}

AttendanceHistory(teacherId, classId, view, date) ==
    /\ IF \/ ~TeacherAssignment(classId, teacherId)
          \/ ~\E c \in classes : c.id = classId
       THEN page' = [view |-> "redirect", teacherId |-> teacherId,
                     classId |-> classId, period |-> view,
                     report |-> <<>>]
       ELSE LET w == HistoryWindow(view, date)
                records == attendanceRecords(classId, w)
                grid == GridInitialised(teacherId, classId, w.dates)
                nav == NavigationDates(view, date, w.startDate)
            IN \E last \in ValidStatus :
                  page' = [view |-> "history", teacherId |-> teacherId,
                           classId |-> classId, period |-> view,
                           report |-> <<>>, dates |-> w.dates,
                           grid |-> GridFilled(grid, records, last),
                           prevDate |-> formatDateLocal(nav.prevDate),
                           nextDate |-> formatDateLocal(nav.nextDate),
                           startDate |-> formatDateLocal(w.startDate),
                           endDate |-> formatDateLocal(w.endDate)]
    /\ UNCHANGED <<db, now, timeOffset, studentSeq, resp, req, calls>>

-----------------------------------------------------------------------------
(* Requests in flight.  A handler awaits each of its statements; between   *)
(* two statements of one request the statements of another may run.  Each  *)
(* statement is one step of the call, atomic in the database.              *)

NoResponse == Response("none", FALSE, 0, "", 0)

\* a request as it arrives
NewCall(op, teacherId, classId, studentId, date, status, periodId, changes) ==
    [op |-> op, pc |-> "start", teacherId |-> teacherId,
     classId |-> classId, studentId |-> studentId, date |-> date,
     status |-> status, periodId |-> periodId, changes |-> changes,
     i |-> 1, updatedCount |-> 0, existingRecord |-> FALSE,
     attendanceCount |-> 0, wrote |-> 0, out |-> NoResponse]

\* the position of the next write among the writes of the calls
NextWrite ==
    1 + Cardinality({c \in DOMAIN calls : calls[c].wrote > 0})

\* Seeded fault: an answer after which the call runs its statement again
Answer_Retries(c, response) ==
    /\ calls' = [calls EXCEPT ![c].out = response]
    /\ resp' = response

\* the call answers
Answer(c, response) ==
    /\ calls' = [calls EXCEPT ![c].pc = "done", ![c].out = response]
    /\ resp' = response

\* mark-attendance, first statement: the current period of the teacher
MarkResolve(c) ==
    /\ calls[c].op = "mark"
    /\ calls[c].pc = "start"
    /\ LET currentPeriod ==
               TeacherCurrentPeriod(calls[c].classId, calls[c].teacherId)
       IN IF currentPeriod = {}
          THEN Answer(c, Response("mark", FALSE, 200, "NoActivePeriod", 0))
          ELSE /\ calls' = [calls EXCEPT
                      ![c].pc = "upsert",
                      ![c].periodId =
                          (CHOOSE tp \in currentPeriod : TRUE).id]
               /\ UNCHANGED resp
    /\ UNCHANGED <<db, now, timeOffset, studentSeq, page, req>>

\* mark-attendance, second statement: the upsert, and the answer
MarkUpsert(c) ==
    /\ calls[c].op = "mark"
    /\ calls[c].pc = "upsert"
    /\ LET r == UpsertAttendance(attendance, calls[c].studentId,
                                 calls[c].classId, calls[c].periodId,
                                 calls[c].date, calls[c].status,
                                 calls[c].teacherId)
           response == IF r.ok
                       THEN Response("mark", TRUE, 200, "", 0)
                       ELSE Response("mark", FALSE, 200,
                                     "Failed to mark attendance", 0)
       IN /\ WithinRows(r.rows)
          /\ attendance' = r.rows
          /\ calls' = [calls EXCEPT ![c].pc = "done", ![c].out = response,
                                    ![c].wrote = NextWrite]
          /\ resp' = response
    /\ UNCHANGED <<classes, students, periods, periodSeq, now, timeOffset,
                   studentSeq, page, req>>

\* delete period, first statement: the period's details
DeleteSelect(c) ==
    /\ calls[c].op = "deletePeriod"
    /\ calls[c].pc = "start"
    /\ IF {tp \in periods : tp.id = calls[c].periodId} = {}
       THEN Answer(c, Response("deletePeriod", FALSE, 404,
                               "Period not found", 0))
       ELSE /\ calls' = [calls EXCEPT ![c].pc = "count"]
            /\ UNCHANGED resp
    /\ UNCHANGED <<db, now, timeOffset, studentSeq, page, req>>

\* delete period, second statement: the count of the period's records
DeleteCount(c) ==
    /\ calls[c].op = "deletePeriod"
    /\ calls[c].pc = "count"
    /\ calls' = [calls EXCEPT
           ![c].pc = "delete",
           ![c].attendanceCount =
               Cardinality({a \in attendance :
                               a.period_id = calls[c].periodId})]
    /\ UNCHANGED <<db, now, timeOffset, studentSeq, resp, page, req>>

\* delete period, third statement: the delete with its cascade, and the
\* answer
DeleteExec(c) ==
    /\ calls[c].op = "deletePeriod"
    /\ calls[c].pc = "delete"
    /\ LET gone == {tp \in periods : tp.id = calls[c].periodId}
           response == Response("deletePeriod", TRUE, 200, "",
                                calls[c].attendanceCount)
       IN /\ periods' = periods \ gone
          /\ attendance' = CascadeDelete(attendance, gone)
          /\ calls' = [calls EXCEPT ![c].pc = "done", ![c].out = response,
                                    ![c].wrote = NextWrite]
          /\ resp' = response
    /\ UNCHANGED <<classes, students, periodSeq, now, timeOffset,
                   studentSeq, page, req>>

\* the rows of a student on a date
SameDay(rows, change) ==
    {a \in rows : a.student_id = change.studentId /\ a.date = change.date}

\* UPDATE attendance SET status = $1 WHERE student_id = $2 AND date = $3
UpdateDay(rows, change) ==
    IF SameDay(rows, change) = {}
    THEN [ok |-> TRUE, rows |-> rows]
    ELSE IF change.status \in ValidStatus
    THEN [ok |-> TRUE,
          rows |-> (rows \ SameDay(rows, change)) \cup
              {[a EXCEPT !.status = change.status] :
                   a \in SameDay(rows, change)}]
    ELSE [ok |-> FALSE, rows |-> rows]

\* Seeded fault: an insert of the editor that the table's CHECK on status
\* does not guard
InsertManual_NoCheck(rows, change, teacherId) ==
    IF change.studentId \in {s.id : s \in students}
    THEN [ok |-> TRUE,
          rows |-> rows \cup
              {[student_id |-> change.studentId, class_id |-> NULL,
                period_id |-> NULL, date |-> change.date,
                status |-> change.status, marked_by |-> teacherId,
                copy |-> FreshCopy(rows, change.studentId, change.date,
                                   NULL)]}]
    ELSE [ok |-> FALSE, rows |-> rows]

\* INSERT INTO attendance (student_id, date, status, marked_by, created_at)
InsertManual(rows, change, teacherId) ==
    IF /\ change.status \in ValidStatus
       /\ change.studentId \in {s.id : s \in students}
    THEN [ok |-> TRUE,
          rows |-> rows \cup
              {[student_id |-> change.studentId, class_id |-> NULL,
                period_id |-> NULL, date |-> change.date,
                status |-> change.status, marked_by |-> teacherId,
                copy |-> FreshCopy(rows, change.studentId, change.date,
                                   NULL)]}]
    ELSE [ok |-> FALSE, rows |-> rows]

\* the loop goes on with the next change, or ends and the call answers
BulkAdvance(c) ==
    LET response == Response("bulk", TRUE, 200, "",
                             calls[c].updatedCount + 1)
    IN IF calls[c].i = Len(calls[c].changes)
       THEN /\ calls' = [calls EXCEPT
                   ![c].pc = "done", ![c].out = response,
                   ![c].wrote = NextWrite,
                   ![c].updatedCount = calls[c].updatedCount + 1]
            /\ resp' = response
       ELSE /\ calls' = [calls EXCEPT
                   ![c].pc = "select", ![c].i = calls[c].i + 1,
                   ![c].wrote = NextWrite,
                   ![c].updatedCount = calls[c].updatedCount + 1]
            /\ UNCHANGED resp

\* bulk update, first statement: the teacher's assignment to the class
BulkCheck(c) ==
    /\ calls[c].op = "bulk"
    /\ calls[c].pc = "start"
    /\ IF ~TeacherAssignment(calls[c].classId, calls[c].teacherId)
       THEN Answer(c, Response("bulk", FALSE, 403,
                               "Access denied to this class", 0))
       ELSE IF calls[c].changes = <<>>
       THEN Answer(c, Response("bulk", TRUE, 200, "", 0))
       ELSE /\ calls' = [calls EXCEPT ![c].pc = "select"]
            /\ UNCHANGED resp
    /\ UNCHANGED <<db, now, timeOffset, studentSeq, page, req>>

\* bulk update, first statement of an iteration: the delete of the day's
\* records when the status is empty, the look for a record otherwise
BulkSelect(c) ==
    /\ calls[c].op = "bulk"
    /\ calls[c].pc = "select"
    /\ LET change == calls[c].changes[calls[c].i]
       IN IF change.status = ""
          THEN /\ attendance' = attendance \ SameDay(attendance, change)
               /\ BulkAdvance(c)
          ELSE /\ calls' = [calls EXCEPT
                      ![c].pc = "write",
                      ![c].existingRecord =
                          (SameDay(attendance, change) # {})]
               /\ UNCHANGED <<attendance, resp>>
    /\ UNCHANGED <<classes, students, periods, periodSeq, now, timeOffset,
                   studentSeq, page, req>>

\* bulk update, second statement of an iteration: the update when a
\* record was found, the insert otherwise
BulkWrite(c) ==
    /\ calls[c].op = "bulk"
    /\ calls[c].pc = "write"
    /\ LET change == calls[c].changes[calls[c].i]
           r == IF calls[c].existingRecord
                THEN UpdateDay(attendance, change)
                ELSE InsertManual(attendance, change, calls[c].teacherId)
       IN /\ WithinRows(r.rows)
          /\ attendance' = r.rows
          /\ IF r.ok
             THEN BulkAdvance(c)
             ELSE Answer(c, Response("bulk", FALSE, 500, "StorageError", 0))
    /\ UNCHANGED <<classes, students, periods, periodSeq, now, timeOffset,
                   studentSeq, page, req>>

-----------------------------------------------------------------------------
(* Requests of the bulk editor *)

\* the changes a bulk update may carry
BulkChanges ==
    [studentId : StudentIds, date : Dates, status : BulkStatuses]

-----------------------------------------------------------------------------
(* The whole life of the data: every handler that writes the attendance   *)
(* table or the tables it references, over a timetable without breaks, at  *)
(* one instant (Monday 10:00 IST, the last minute of the 09:00-10:00       *)
(* period)                                                                 *)

Next ==
    \/ \E c \in ClassIds, d \in PeriodDays, n \in PeriodNumbers,
          w \in Windows, t \in PeriodTeachers :
          SavePeriod(c, d, n, w[1], w[2], t, FALSE)
    \/ \E p \in 1..MaxPeriodId : DeletePeriod(p)
    \/ \E t \in TeacherIds, c \in ClassIds, s \in StudentIds, d \in Dates,
          st \in MarkStatuses : MarkAttendance(t, c, s, d, st)
    \/ \E t \in TeacherIds, c \in ClassIds, ch \in BulkChanges :
          BulkUpdate(t, c, <<ch>>)
    \/ \E s \in StudentIds : DeleteStudent(s)
    \/ \E c \in ClassIds : DeleteClassApi(c)
    \/ \E c \in ClassIds : DeleteClass(c)
    \/ \E c \in ClassIds : DeleteAllPeriods(c)

Spec == Init /\ [][Next]_vars

-----------------------------------------------------------------------------
(* Marking against the timetable: the timetable handlers, with breaks, the *)
(* clock on and around the bounds of a period, and mark-attendance          *)

InitMark ==
    /\ classes = {[id |-> 1, total_students |-> 2]}
    /\ students = {[id |-> 1, class_id |-> 1, roll_no |-> 1,
                    register_id |-> 1],
                   [id |-> 2, class_id |-> 1, roll_no |-> 2,
                    register_id |-> 2]}
    /\ periods = {}
    /\ attendance = {}
    /\ periodSeq = 0
    /\ now = Mon0900
    /\ timeOffset = DefaultTimeOffset
    /\ studentSeq = 2
    /\ resp = Response("start", TRUE, 200, "", 0)
    /\ page = NoPage
    /\ req = NoRequest
    /\ calls = NoCalls

NextMark ==
    \/ Tick({Mon1000, Mon1001, Tue0930})
    \/ \E c \in ClassIds, d \in PeriodDays, n \in PeriodNumbers,
          w \in Windows, t \in PeriodTeachers, b \in BOOLEAN :
          SavePeriod(c, d, n, w[1], w[2], t, b)
    \/ \E p \in 1..MaxPeriodId : DeletePeriod(p)
    \/ \E t \in TeacherIds, c \in ClassIds, s \in StudentIds,
          st \in MarkStatuses : MarkAttendance(t, c, s, Today, st)

SpecMark == InitMark /\ [][NextMark]_vars

-----------------------------------------------------------------------------
(* Reporting: the report page of a class whose two students have a         *)
(* history of marks.  Period 1 is teacher 1's, period 2 is teacher 2's;     *)
(* student 1 has the lower id and the higher roll number.                   *)

\* the first day of the older marks, six days before the month begins
OldestDay == Today - MonthDays - 6

AttendanceRow(studentId, periodId, date, status, markedBy) ==
    [student_id |-> studentId,
     class_id |-> IF periodId = NULL THEN NULL ELSE 1,
     period_id |-> periodId, date |-> date, status |-> status,
     marked_by |-> markedBy, copy |-> 1]

\* a history of one student: nP present and nA absent marks of teacher 1
\* on the latest days, nOld marks of teacher 1 from OldestDay on (before
\* the week, partly before the month), nOther marks of teacher 2 and nNull
\* rows without a period
History(studentId, nP, nA, nOld, nOther, nNull) ==
    {AttendanceRow(studentId, 1, Today - (k - 1), "P", 1) : k \in 1..nP}
    \cup {AttendanceRow(studentId, 1, Today - MaxPresent - (k - 1), "A", 1) :
              k \in 1..nA}
    \cup {AttendanceRow(studentId, 1, OldestDay + (k - 1),
                        IF k % 2 = 1 THEN "P" ELSE "A", 1) : k \in 1..nOld}
    \cup {AttendanceRow(studentId, 2, Today, "P", 2) : k \in 1..nOther}
    \cup {AttendanceRow(studentId, NULL, Today - 1, "A", 1) : k \in 1..nNull}

\* a Monday timetable of class 1: period 1 is teacher 1's, period 2 is
\* teacher t2's
TwoPeriods(t2) ==
    {[id |-> 1, class_id |-> 1, day_of_week |-> 1, period_number |-> 1,
      start_time |-> 540, end_time |-> 600, teacher_id |-> 1,
      is_break |-> FALSE],
     [id |-> 2, class_id |-> 1, day_of_week |-> 1, period_number |-> 2,
      start_time |-> 600, end_time |-> 660, teacher_id |-> t2,
      is_break |-> FALSE]}

InitReport ==
    /\ classes = {[id |-> 1, total_students |-> 2]}
    /\ students = {[id |-> 1, class_id |-> 1, roll_no |-> 2,
                    register_id |-> 1],
                   [id |-> 2, class_id |-> 1, roll_no |-> 1,
                    register_id |-> 2]}
    /\ \E t2 \in PeriodTeachers : periods = TwoPeriods(t2)
    /\ \E nP \in 0..MaxPresent, nA \in 0..MaxAbsent, nOld \in {0, OlderRows},
          nOther \in 0..1, nNull \in 0..1, mP \in 0..1, mOld \in 0..1,
          mOther \in 0..1 :
          attendance = History(1, nP, nA, nOld, nOther, nNull)
                           \cup History(2, mP, 0, mOld, mOther, 0)
    /\ periodSeq = 2
    /\ now = Mon1000
    /\ timeOffset = DefaultTimeOffset
    /\ studentSeq = 2
    /\ resp = Response("start", TRUE, 200, "", 0)
    /\ page = NoPage
    /\ req = NoRequest
    /\ calls = NoCalls

NextReport ==
    \E t \in TeacherIds, c \in ClassIds, p \in ReportPeriods :
        BuildReport(t, c, p)

SpecReport == InitReport /\ [][NextReport]_vars

-----------------------------------------------------------------------------
(* The bulk editor: one client, whose request (a list of changes, and the  *)
(* period of the report it looks at next) is submitted, perhaps again, to  *)
(* a class where student 1 has been marked today.                          *)

\* the lists of changes a request carries
ChangeLists == UNION {[1..n -> BulkChanges] : n \in 1..MaxChanges}

\* the marks of student 1 today: the first one only, or both
MarksToday(n) ==
    {AttendanceRow(1, 1, Today, "P", 1)}
        \cup {AttendanceRow(1, 2, Today, "A", 2) : k \in 2..n}

InitBulk ==
    /\ classes = {[id |-> 1, total_students |-> 2]}
    /\ students = {[id |-> 1, class_id |-> 1, roll_no |-> 2,
                    register_id |-> 1],
                   [id |-> 2, class_id |-> 1, roll_no |-> 1,
                    register_id |-> 2]}
    /\ \E t2 \in PeriodTeachers : periods = TwoPeriods(t2)
    /\ \E n \in 1..2, nOld \in 0..1, mNull \in 0..1 :
          attendance =
              MarksToday(n)
                  \cup {AttendanceRow(1, 1, Today - 8, "A", 1) :
                            k \in 1..nOld}
                  \cup {AttendanceRow(2, NULL, Today, "P", 1) :
                            k \in 1..mNull}
    /\ periodSeq = 2
    /\ now = Mon1000
    /\ timeOffset = DefaultTimeOffset
    /\ studentSeq = 2
    /\ resp = Response("start", TRUE, 200, "", 0)
    /\ page = NoPage
    /\ req \in [teacherId : TeacherIds, classId : ClassIds,
                changes : ChangeLists, period : {"week", "full"}]
    /\ calls = NoCalls

NextBulk ==
    \/ BulkUpdate(req.teacherId, req.classId, req.changes)
    \/ BuildReport(req.teacherId, req.classId, req.period)

SpecBulk == InitBulk /\ [][NextBulk]_vars

-----------------------------------------------------------------------------
(* The history page: one teacher looks at a week or a month of the grid    *)
(* (the week of the current Monday, or of the Sunday eight days before it) *)
(* while the teachers mark and edit attendance from 09:30 on.  The class   *)
(* has the Monday period 09:00-10:00 of teacher 1, alone or followed by a  *)
(* period 10:00-11:00.                                                     *)

\* Monday 1970-02-16 at 09:30 and at 11:00 IST
Mon0930 == 46 * MinutesPerDay + 240
Mon1100 == 46 * MinutesPerDay + 330

\* the dates a history request may select (none: the current date)
HistoryDates == {NULL, 38}

OnePeriod == {tp \in TwoPeriods(1) : tp.id = 1}

InitHistory ==
    /\ classes = {[id |-> 1, total_students |-> 2]}
    /\ students = {[id |-> 1, class_id |-> 1, roll_no |-> 2,
                    register_id |-> 1],
                   [id |-> 2, class_id |-> 1, roll_no |-> 1,
                    register_id |-> 2]}
    /\ periods \in {OnePeriod} \cup {TwoPeriods(t2) : t2 \in PeriodTeachers}
    /\ attendance = {}
    /\ periodSeq = 2
    /\ now = Mon0930
    /\ timeOffset = DefaultTimeOffset
    /\ studentSeq = 2
    /\ resp = Response("start", TRUE, 200, "", 0)
    /\ page = NoPage
    /\ req \in [teacherId : TeacherIds, classId : ClassIds,
                changes : {<<>>}, period : HistoryViews,
                date : HistoryDates]
    /\ calls = NoCalls

NextHistory ==
    \/ Tick({Mon1100})
    \/ \E t \in TeacherIds, c \in ClassIds, d \in Dates,
          st \in MarkStatuses : MarkAttendance(t, c, 1, d, st)
    \/ \E t \in TeacherIds, c \in ClassIds, st \in BulkStatuses :
          BulkUpdate(t, c, <<[studentId |-> 1, date |-> Today,
                              status |-> st]>>)
    \/ AttendanceHistory(req.teacherId, req.classId, req.period, req.date)

SpecHistory == InitHistory /\ [][NextHistory]_vars

-----------------------------------------------------------------------------
(* Two requests in flight at 09:30 on the Monday, in a class whose only     *)
(* period is teacher 1's 09:00-10:00: each is a mark of student 1 by        *)
(* teacher 1, a bulk update of teacher 1 about student 1 today, or the      *)
(* admin's delete of the period.  Their statements interleave freely.       *)

CallIds == {1, 2}

\* statuses a call carries: '' clears the day in a bulk change, X fails
\* the CHECK on attendance.status
CallStatuses == {"", "P", "A", "X"}

\* the changes about student 1 today
CallChanges == [studentId : {1}, date : {Today}, status : CallStatuses]

CallRequests ==
    {NewCall("mark", 1, 1, 1, Today, st, NULL, <<>>) :
         st \in CallStatuses \ {""}}
        \cup {NewCall("bulk", 1, 1, NULL, NULL, "", NULL, chs) :
                  chs \in UNION {[1..n -> CallChanges] : n \in 1..MaxChanges}}
        \cup {NewCall("deletePeriod", NULL, NULL, NULL, NULL, "", 1, <<>>)}

InitRace ==
    /\ classes = {[id |-> 1, total_students |-> 2]}
    /\ students = {[id |-> 1, class_id |-> 1, roll_no |-> 1,
                    register_id |-> 1],
                   [id |-> 2, class_id |-> 1, roll_no |-> 2,
                    register_id |-> 2]}
    /\ periods = OnePeriod
    /\ attendance \in {{}, {AttendanceRow(1, 1, Today, "A", 1)}}
    /\ periodSeq = 1
    /\ now = Mon0930
    /\ timeOffset = DefaultTimeOffset
    /\ studentSeq = 2
    /\ resp = Response("start", TRUE, 200, "", 0)
    /\ page = NoPage
    /\ req = NoRequest
    /\ calls \in [CallIds -> CallRequests]

NextRace ==
    \E c \in CallIds :
        \/ MarkResolve(c)
        \/ MarkUpsert(c)
        \/ DeleteSelect(c)
        \/ DeleteCount(c)
        \/ DeleteExec(c)
        \/ BulkCheck(c)
        \/ BulkSelect(c)
        \/ BulkWrite(c)

SpecRace == InitRace /\ [][NextRace]_vars

-----------------------------------------------------------------------------
(* The time resolver at instants around midnight UTC and midnight IST of a  *)
(* week (and around the epoch), under configured offsets of either sign.   *)

\* days whose instants the clock is drawn from: the day of the epoch and
\* the week from Monday 1970-02-16 to Sunday 1970-02-22
ClockDays == {0} \cup 46..52

\* minutes of the UTC day: 00:00, 00:01, 03:35, 18:29, 18:30 (midnight
\* IST) and 23:59
ClockMinutes == {0, 1, 215, 1109, 1110, 1439}

\* values of TIME_OFFSET_MINUTES in the environment
OffsetEnv ==
    {[kind |-> "unset", value |-> 0], [kind |-> "text", value |-> 0]}
        \cup [kind : {"integer"},
              value : {-1440, -331, -330, -1, 0, 1, 90, 1440}]

\* GET /teacher/dashboard reads the day and the time for the page
ResolveTime ==
    /\ page' = [view |-> "clock", teacherId |-> NULL, classId |-> NULL,
                period |-> "full", report |-> <<>>,
                currentDay |-> getCurrentDayOfWeek,
                currentTime |-> getCurrentTime.text]
    /\ UNCHANGED <<db, now, timeOffset, studentSeq, resp, req, calls>>

InitClock ==
    /\ classes = {[id |-> 1, total_students |-> 2]}
    /\ students = {[id |-> 1, class_id |-> 1, roll_no |-> 1,
                    register_id |-> 1],
                   [id |-> 2, class_id |-> 1, roll_no |-> 2,
                    register_id |-> 2]}
    /\ periods = {}
    /\ attendance = {}
    /\ periodSeq = 0
    /\ \E d \in ClockDays, m \in ClockMinutes : now = d * MinutesPerDay + m
    /\ \E env \in OffsetEnv : timeOffset = ParseOffset(env)
    /\ studentSeq = 2
    /\ resp = Response("start", TRUE, 200, "", 0)
    /\ page = NoPage
    /\ req = NoRequest
    /\ calls = NoCalls

NextClock == ResolveTime

SpecClock == InitClock /\ [][NextClock]_vars

-----------------------------------------------------------------------------
(* The admin's student handlers on one class of two students *)

\* what an admin may enter for a student
StudentRolls == {1, 2, 3}
RegisterIds == {1, 2, 3}
NewStudents == [roll_no : StudentRolls, register_id : RegisterIds]

\* the lists a bulk upload carries
StudentLists == UNION {[1..n -> NewStudents] : n \in 1..MaxBatch}

NextStudents ==
    \/ \E c \in ClassIds, st \in NewStudents : AddStudent(c, st)
    \/ \E c \in ClassIds, sts \in StudentLists : BulkAddStudents(c, sts)
    \/ \E s \in 1..MaxStudentId : DeleteStudent(s)

SpecStudents == Init /\ [][NextStudents]_vars

-----------------------------------------------------------------------------
(* Properties *)

\* a period whose day and window contain the current instant, both bounds
\* included, and which is not a break
ActiveNow(p) ==
    /\ p.day_of_week = getCurrentDayOfWeek
    /\ p.start_time <= TimeOfDay(getCurrentTime)
    /\ TimeOfDay(getCurrentTime) <= p.end_time
    /\ p.is_break = FALSE

\* the attendance rows of one (student, date, period)
RowsOf(rows, studentId, date, periodId) ==
    {a \in rows : /\ a.student_id = studentId
                  /\ a.date = date
                  /\ a.period_id = periodId}

\* C1: for every period p of a class, each matcher returns p at the current
\* instant if and only if p's day is the instant's weekday, p's window
\* contains the instant's time of day (bounds included) and p is not a
\* break: the class-scoped getCurrentPeriod for the class of p, and the
\* teacher-scoped matcher for the class and the teacher of p.
C1_MatcherReturnsExactlyActivePeriods ==
    \A p \in periods :
        /\ (p \in getCurrentPeriod(p.class_id)) <=> ActiveNow(p)
        /\ (p \in TeacherCurrentPeriod(p.class_id, p.teacher_id))
               <=> ActiveNow(p)

\* C2: a mark-attendance request of a teacher who has no non-break period
\* in the class whose day and window contain the current instant is
\* answered with success = false and the NoActivePeriod message, and leaves
\* the set of attendance rows as it was.
C2_NoActivePeriodRejected ==
    [][\A t \in TeacherIds, c \in ClassIds, s \in StudentIds, d \in Dates,
          st \in MarkStatuses :
          (/\ ~\E p \in periods : /\ p.class_id = c
                                  /\ p.teacher_id = t
                                  /\ ActiveNow(p)
           /\ MarkAttendance(t, c, s, d, st))
          => /\ resp'.success = FALSE
             /\ resp'.error = "NoActivePeriod"
             /\ attendance' = attendance]_vars

\* a rejected mark one minute after the end of the teacher's period, with a
\* mark of that period in the table
C2_Witness ==
    /\ resp.op = "mark"
    /\ resp.error = "NoActivePeriod"
    /\ now = Mon1001
    /\ \E p \in periods, a \in attendance :
           /\ a.period_id = p.id
           /\ p.is_break = FALSE
           /\ p.end_time = TimeOfDay(getCurrentTime) - 1

\* C3: a mark-attendance request that succeeds leaves exactly one row for
\* (student, date, active period), with the requested status; and when the
\* table already holds that row with that status from the same teacher (the
\* request is a repetition), the table is left as it was.
C3_MarkIdempotent ==
    [][\A t \in TeacherIds, c \in ClassIds, s \in StudentIds, d \in Dates,
          st \in MarkStatuses :
          (MarkAttendance(t, c, s, d, st) /\ resp'.success)
          => \A p \in TeacherCurrentPeriod(c, t) :
                 /\ Cardinality(RowsOf(attendance', s, d, p.id)) = 1
                 /\ \A a \in RowsOf(attendance', s, d, p.id) :
                        a.status = st
                 /\ (\E a \in RowsOf(attendance, s, d, p.id) :
                         a.status = st /\ a.marked_by = t)
                    => attendance' = attendance]_vars

\* after a successful mark: one row of an active period, marked by the
\* teacher of that period (the state a first and a repeated mark both
\* lead to)
C3_Witness ==
    /\ resp = Response("mark", TRUE, 200, "", 0)
    /\ \E p \in periods, a \in attendance :
           /\ ActiveNow(p)
           /\ a.period_id = p.id
           /\ a.marked_by = p.teacher_id
           /\ RowsOf(attendance, a.student_id, a.date, p.id) = {a}

\* C4: at most one attendance row per (student, date, period), for every
\* period that is not null.
C4_OneRowPerStudentDatePeriod ==
    \A a \in attendance :
        a.period_id # NULL
        => RowsOf(attendance, a.student_id, a.date, a.period_id) = {a}

\* a student marked on one date in two periods
C4_Witness ==
    /\ resp.op = "mark"
    /\ \E a, b \in attendance :
           /\ a.student_id = b.student_id
           /\ a.date = b.date
           /\ a.period_id # NULL
           /\ b.period_id # NULL
           /\ a.period_id # b.period_id

\* C5: deleting a period that exists removes the attendance rows whose
\* period_id is that period, and removes or changes no other row; deleting
\* all the periods of a class removes the rows of those periods and no
\* other.
C5_CascadeLaw ==
    [][/\ \A p \in 1..MaxPeriodId :
             (DeletePeriod(p) /\ \E tp \in periods : tp.id = p)
             => attendance' = {a \in attendance : a.period_id # p}
       /\ \A c \in ClassIds :
             (DeleteAllPeriods(c) /\ resp'.success)
             => attendance' =
                    {a \in attendance :
                         \A tp \in periods :
                             tp.class_id = c => a.period_id # tp.id}]_vars

\* a period was deleted with marks of its own, and a row survives
C5_Witness ==
    /\ resp.op = "deletePeriod"
    /\ resp.count > 0
    /\ attendance # {}

\* the attendance rows of one student
RowsOfStudent(rows, studentId) == {a \in rows : a.student_id = studentId}

\* the row belongs to a period taught by the teacher
TaughtBy(a, teacherId) ==
    \E tp \in periods : tp.id = a.period_id /\ tp.teacher_id = teacherId

\* the row satisfies the date lower bound of the report period: now - 7d
\* for week, now - 30d for month, none for full
InReportWindow(a, period) ==
    \/ period = "full"
    \/ period = "week" /\ a.date >= DaysAgo(7)
    \/ period = "month" /\ a.date >= DaysAgo(30)

\* h hundredths is x = present * 100 / total rounded to two decimals:
\* h - 1/2 <= 100 x < h + 1/2
IsRounded(h, present, total) ==
    /\ 2 * h * total - total <= 2 * present * 10000
    /\ 2 * present * 10000 < 2 * h * total + total

\* C6: in every row of a report, total_days is the number of the student's
\* attendance rows that satisfy the date lower bound and either belong to
\* a period taught by the teacher or have no period at all.
C6_ReportCountsPeriodlessRows ==
    [][\A t \in TeacherIds, c \in ClassIds, p \in ReportPeriods :
          (BuildReport(t, c, p) /\ page'.view = "reports")
          => \A i \in DOMAIN page'.report :
                 page'.report[i].total_days =
                     Cardinality(
                         {a \in RowsOfStudent(attendance,
                                              page'.report[i].student_id) :
                              /\ InReportWindow(a, p)
                              /\ TaughtBy(a, t) \/ a.period_id = NULL})]_vars

\* C7: in every row of a report, present_days and absent_days are the
\* numbers of counted rows (the student's rows of the teacher's periods
\* that satisfy the date lower bound) with status P and with status A,
\* their sum is total_days, and the percentage is present_days * 100 /
\* total_days rounded to two decimals when total_days > 0 and null when
\* it is 0; in a week report, a student with 3 P and 2 A such rows in the
\* last 7 days and 10 older ones gets 3, 2 and 60.00.
C7_ReportArithmetic ==
    [][\A t \in TeacherIds, c \in ClassIds, p \in ReportPeriods :
          (BuildReport(t, c, p) /\ page'.view = "reports")
          => \A i \in DOMAIN page'.report :
                 LET r == page'.report[i]
                     taught == {a \in RowsOfStudent(attendance,
                                                    r.student_id) :
                                    TaughtBy(a, t)}
                     counted == {a \in taught : InReportWindow(a, p)}
                     recent == {a \in taught : a.date >= DaysAgo(7)}
                 IN /\ r.present_days =
                           Cardinality({a \in counted : a.status = "P"})
                    /\ r.absent_days =
                           Cardinality({a \in counted : a.status = "A"})
                    /\ r.present_days + r.absent_days = r.total_days
                    /\ IF r.total_days = 0
                       THEN r.attendance_percentage = <<>>
                       ELSE /\ Len(r.attendance_percentage) = 1
                            /\ IsRounded(r.attendance_percentage[1],
                                         r.present_days, r.total_days)
                    /\ (/\ p = "week"
                        /\ Cardinality({a \in recent : a.status = "P"}) = 3
                        /\ Cardinality({a \in recent : a.status = "A"}) = 2
                        /\ Cardinality(taught \ recent) = 10)
                       => /\ r.present_days = 3
                          /\ r.absent_days = 2
                          /\ r.attendance_percentage = <<6000>>]_vars

\* a week report of teacher 1 over a student with fifteen rows, ten of them
\* older than the week: 3 present, 2 absent, 60.00; the other student's
\* percentage is null
C7_Witness ==
    /\ page.view = "reports"
    /\ page.period = "week"
    /\ \E i \in DOMAIN page.report :
           /\ page.report[i].present_days = 3
           /\ page.report[i].absent_days = 2
           /\ page.report[i].total_days = 5
           /\ page.report[i].attendance_percentage = <<6000>>
           /\ Cardinality(RowsOfStudent(attendance,
                                        page.report[i].student_id)) = 15
    /\ \E i \in DOMAIN page.report :
           /\ page.report[i].total_days = 0
           /\ page.report[i].attendance_percentage = <<>>

\* C8: a report has exactly one row for every student of the class, in
\* ascending order of roll number; a student none of whose rows is counted
\* (they belong to other teachers' periods or fall before the date lower
\* bound) has a row with total_days = 0.
C8_ReportListsEveryStudent ==
    [][\A t \in TeacherIds, c \in ClassIds, p \in ReportPeriods :
          (BuildReport(t, c, p) /\ page'.view = "reports")
          => LET inClass == {st \in students : st.class_id = c}
                 report == page'.report
             IN /\ Len(report) = Cardinality(inClass)
                /\ \A st \in inClass :
                       \E i \in DOMAIN report :
                           /\ report[i].student_id = st.id
                           /\ (\A a \in RowsOfStudent(attendance, st.id) :
                                   ~(TaughtBy(a, t) /\ InReportWindow(a, p)))
                              => report[i].total_days = 0
                /\ \A i, j \in DOMAIN report :
                       i < j => report[i].roll_no < report[j].roll_no]_vars

\* the attendance rows of one (student, date)
RowsOn(rows, studentId, date) ==
    {a \in rows : a.student_id = studentId /\ a.date = date}

\* the changes of a list that are about one (student, date), in order
ChangesOn(changes, studentId, date) ==
    SelectSeq(changes,
              LAMBDA ch : ch.studentId = studentId /\ ch.date = date)

\* C9: a bulk update that succeeds has treated every change in turn: an
\* empty status deletes the rows of (student, date); another status
\* updates the rows of (student, date) to it when there are some, and
\* inserts nothing; otherwise it inserts one row without a period, with
\* that status and marked_by = the calling teacher.  So for each (student,
\* date): without a change about it the rows are as before; with a last
\* change of empty status there is no row; with changes that deleted
\* nothing and rows before, the same rows carry the last status; otherwise
\* there is exactly the one inserted row, carrying the last status.
C9_BulkChangeSemantics ==
    [][(/\ BulkUpdate(req.teacherId, req.classId, req.changes)
        /\ resp'.success)
       => /\ resp'.count = Len(req.changes)
          /\ \A s \in StudentIds, d \in Dates :
                 LET cs == ChangesOn(req.changes, s, d)
                     before == RowsOn(attendance, s, d)
                     after == RowsOn(attendance', s, d)
                     last == cs[Len(cs)]
                     emptied == \E i \in DOMAIN cs : cs[i].status = ""
                 IN IF cs = <<>> THEN after = before
                    ELSE IF last.status = "" THEN after = {}
                    ELSE IF before # {} /\ ~emptied
                    THEN after = {[a EXCEPT !.status = last.status] :
                                      a \in before}
                    ELSE after = {[student_id |-> s, class_id |-> NULL,
                                   period_id |-> NULL, date |-> d,
                                   status |-> last.status,
                                   marked_by |-> req.teacherId,
                                   copy |-> 1]}]_vars

\* after a request of two changes of teacher 2: one has set the mark
\* student 1 had today, teacher 1's, to its status, the other has inserted
\* a row without a period, marked by teacher 2, for the old date
C9_Witness ==
    /\ resp.op = "bulk"
    /\ resp.success
    /\ resp.count = 2
    /\ req.teacherId = 2
    /\ \E i, j \in DOMAIN req.changes :
           /\ req.changes[i].studentId = 1
           /\ req.changes[i].date = Today
           /\ req.changes[i].status = "A"
           /\ RowsOn(attendance, 1, Today) =
                  {AttendanceRow(1, 1, Today, "A", 1)}
           /\ req.changes[j].date # Today
           /\ \E a \in attendance :
                  /\ RowsOn(attendance, req.changes[j].studentId,
                            req.changes[j].date) = {a}
                  /\ a.period_id = NULL
                  /\ a.marked_by = 2
                  /\ a.status = req.changes[j].status

\* C10: a bulk update whose changes about a (student, date) all carry the
\* empty status leaves no attendance row of that (student, date); and the
\* total_days of every row of a report built from then on is a number of
\* rows the table holds at that time, so that a deleted row is not in it.
C10_DeletedRowNotReported ==
    [][/\ (/\ BulkUpdate(req.teacherId, req.classId, req.changes)
           /\ resp'.success)
          => \A i \in DOMAIN req.changes :
                 LET ch == req.changes[i]
                     cs == ChangesOn(req.changes, ch.studentId, ch.date)
                 IN (\A k \in DOMAIN cs : cs[k].status = "")
                    => RowsOn(attendance', ch.studentId, ch.date) = {}
       /\ (/\ BuildReport(req.teacherId, req.classId, req.period)
           /\ page'.view = "reports")
          => \A i \in DOMAIN page'.report :
                 page'.report[i].total_days =
                     Cardinality(
                         {a \in RowsOfStudent(attendance,
                                              page'.report[i].student_id) :
                              /\ TaughtBy(a, req.teacherId)
                              /\ InReportWindow(a, req.period)})]_vars

\* student 1's marks of today (there was at least one of teacher 1) are
\* gone after teacher 1 sent the empty status for them, and the full
\* report built afterwards counts only the student's old mark
C10_Witness ==
    /\ resp.op = "bulk"
    /\ resp.success
    /\ req.teacherId = 1
    /\ \E i \in DOMAIN req.changes :
           /\ req.changes[i].studentId = 1
           /\ req.changes[i].date = Today
           /\ req.changes[i].status = ""
    /\ RowsOn(attendance, 1, Today) = {}
    /\ page.view = "reports"
    /\ page.period = "full"
    /\ \E i \in DOMAIN page.report :
           /\ page.report[i].student_id = 1
           /\ page.report[i].total_days = 1
           /\ RowsOfStudent(attendance, 1) =
                  {AttendanceRow(1, 1, Today - 8, "A", 1)}

-----------------------------------------------------------------------------
(* The history grid *)

\* the weekday of a date, 1 = Monday .. 7 = Sunday (day 0 was a Thursday)
Weekday(date) == ((date + 3) % 7) + 1

\* the class has no timetable period at all on the weekday of the date
NoPeriodOn(classId, date) ==
    ~\E tp \in periods :
        tp.class_id = classId /\ tp.day_of_week = Weekday(date)

\* every student of the class has an entry with at least one cell for
\* every date, and only the cell 'general' on a date without period
WellInitialised(grid, classId, dates) ==
    \A st \in {x \in students : x.class_id = classId} :
        /\ st.id \in DOMAIN grid
        /\ \A i \in DOMAIN dates :
               /\ dates[i] \in DOMAIN grid[st.id]
               /\ DOMAIN grid[st.id][dates[i]] # {}
               /\ NoPeriodOn(classId, dates[i])
                      => DOMAIN grid[st.id][dates[i]] = {General}

\* C11: when the history page is built, the grid as initialised (and as
\* rendered, after the records are filled in) has, for every student of the
\* class, an entry with at least one cell for every date of the window, and
\* exactly the one cell 'general' on every date whose weekday has no
\* timetable period.
C11_GridInitialisedForEveryDate ==
    [][(/\ page' # page
        /\ page'.view = "history"
        /\ AttendanceHistory(req.teacherId, req.classId, req.period,
                             req.date))
          => \A grid \in {GridInitialised(req.teacherId, req.classId,
                                           page'.dates),
                           page'.grid} :
                 WellInitialised(grid, req.classId, page'.dates)]_vars

\* a week of the grid was rendered in which the Monday has a period cell
\* and the Tuesday, a day without timetable period, only 'general'
C11_Witness ==
    /\ page.view = "history"
    /\ page.period = "week"
    /\ Len(page.dates) = 7
    /\ ~NoPeriodOn(page.classId, page.dates[1])
    /\ General \notin DOMAIN page.grid[2][page.dates[1]]
    /\ NoPeriodOn(page.classId, page.dates[2])
    /\ DOMAIN page.grid[2][page.dates[2]] = {General}

\* the cell of period k was initialised for the teacher on the date: k is a
\* non-break period of the teacher in the class on the date's weekday
CellInitialised(teacherId, classId, date, k) ==
    \E tp \in periods :
        /\ tp.id = k
        /\ tp.teacher_id = teacherId
        /\ tp.class_id = classId
        /\ tp.is_break = FALSE
        /\ tp.day_of_week = Weekday(date)

\* the record goes to the cell of its period
GoesToPeriodCell(r, teacherId, classId) ==
    /\ r.period_id # NULL
    /\ CellInitialised(teacherId, classId, r.date, r.period_id)

\* the records of a student of the class on a date
RecordsOn(classId, studentId, date) ==
    {a \in attendance :
        /\ a.student_id = studentId
        /\ a.date = date
        /\ \E st \in students : st.id = studentId /\ st.class_id = classId}

\* C12: in the grid of a history page, a record's status is in the cell of
\* its period exactly when that cell was initialised for the student and
\* date; every other record (no period, or a period that is not one of the
\* requesting teacher's periods of that weekday) is written to the
\* 'general' cell of its date, which then shows the status of one of them;
\* cells no record was written to stay empty.
C12_OverlayByPeriodOrGeneral ==
    [][(/\ page' # page
        /\ page'.view = "history"
        /\ AttendanceHistory(req.teacherId, req.classId, req.period,
                             req.date))
          => \A grid \in {page'.grid} :
             \A s \in DOMAIN grid :
             \A i \in DOMAIN page'.dates :
                 LET d == page'.dates[i]
                     records == RecordsOn(req.classId, s, d)
                     fallback ==
                         {r \in records :
                             ~GoesToPeriodCell(r, req.teacherId,
                                               req.classId)}
                 IN /\ \A r \in records \ fallback :
                           /\ r.period_id \in DOMAIN grid[s][d]
                           /\ grid[s][d][r.period_id] = r.status
                    /\ \A k \in DOMAIN grid[s][d] \ {General} :
                           /\ CellInitialised(req.teacherId, req.classId,
                                              d, k)
                           /\ grid[s][d][k] # NoMark
                                  => \E r \in records \ fallback :
                                         r.period_id = k
                    /\ fallback # {}
                           => /\ General \in DOMAIN grid[s][d]
                              /\ \E r \in fallback :
                                     grid[s][d][General] = r.status
                    /\ (fallback = {} /\ General \in DOMAIN grid[s][d])
                           => grid[s][d][General] = NoMark]_vars

\* teacher 1's week shows, for student 1 on the Monday, the mark of
\* teacher 1's period in the period's cell and a period-less record in a
\* 'general' cell next to it
C12_Witness ==
    /\ page.view = "history"
    /\ page.teacherId = 1
    /\ page.period = "week"
    /\ Today \in DOMAIN page.grid[1]
    /\ DOMAIN page.grid[1][Today] = {General, 1}
    /\ page.grid[1][Today][1] = "P"
    /\ page.grid[1][Today][General] = "A"
    /\ \E r \in attendance : r.period_id = NULL /\ r.status = "A"
    /\ \E r \in attendance : r.period_id = 1 /\ r.status = "P"

\* the grid the history page would show for the request, were it built now
GridNow(last) ==
    LET w == HistoryWindow(req.period, req.date)
    IN GridFilled(GridInitialised(req.teacherId, req.classId, w.dates),
                  attendanceRecords(req.classId, w), last)

\* C13: the class has the one Monday period 09:00-10:00 of teacher 1.  When
\* teacher 1 marks student 1 Present at 09:30 on that Monday, with that
\* Monday as the date, the mark is stored; the history page then built for
\* teacher 1 for the week of that Monday shows Present in the cell
\* [student 1][that Monday][the period's id]; and an attempt of teacher 1
\* to mark at 11:00 the same day is answered NoActivePeriod and leaves the
\* table, and with it that cell of the grid, unchanged.
C13_MarkShownThenLateMarkRejected ==
    [][/\ (/\ periods = OnePeriod
           /\ now = Mon0930
           /\ page' = page
           /\ MarkAttendance(1, 1, 1, Today, "P"))
             => /\ resp' = Response("mark", TRUE, 200, "", 0)
                /\ RowsOf(attendance', 1, Today, 1) =
                       {AttendanceRow(1, 1, Today, "P", 1)}
       /\ (/\ periods = OnePeriod
           /\ req.teacherId = 1
           /\ req.period = "week"
           /\ req.date = NULL
           /\ AttendanceRow(1, 1, Today, "P", 1) \in attendance
           /\ page' # page
           /\ AttendanceHistory(req.teacherId, req.classId, req.period,
                                req.date))
             => /\ page'.view = "history"
                /\ page'.grid[1][Today][1] = "P"
       /\ (/\ periods = OnePeriod
           /\ now = Mon1100
           /\ page' = page
           /\ \E s \in StudentIds, d \in Dates, st \in MarkStatuses :
                  MarkAttendance(1, 1, s, d, st))
             => /\ resp' = Response("mark", FALSE, 200, "NoActivePeriod", 0)
                /\ attendance' = attendance
                /\ (req.period = "week" /\ req.date = NULL)
                       => \A last \in ValidStatus :
                              GridNow(last)'[1][Today] =
                                  GridNow(last)[1][Today]]_vars

\* it is 11:00 on the Monday; teacher 1's late mark has just been answered
\* NoActivePeriod, and the week rendered for teacher 1 shows student 1
\* Present in the cell of the 09:00-10:00 period
C13_Witness ==
    /\ periods = OnePeriod
    /\ now = Mon1100
    /\ resp = Response("mark", FALSE, 200, "NoActivePeriod", 0)
    /\ AttendanceRow(1, 1, Today, "P", 1) \in attendance
    /\ page.view = "history"
    /\ page.teacherId = 1
    /\ page.period = "week"
    /\ page.dates[1] = Today
    /\ page.grid[1][Today][1] = "P"

-----------------------------------------------------------------------------
(* Requests in flight *)

\* both calls are marks, with different statuses P and A, and both have
\* answered
TwoMarksDone ==
    /\ \A c \in CallIds :
           /\ calls[c].op = "mark"
           /\ calls[c].pc = "done"
           /\ calls[c].status \in ValidStatus
    /\ calls[1].status # calls[2].status

\* the call whose write ran last
LastWriter ==
    CHOOSE c \in CallIds : \A d \in CallIds : calls[d].wrote <= calls[c].wrote

\* C14: when two marks of the same student, date and active period with
\* different statuses have run concurrently, whatever the interleaving of
\* their statements, there is exactly one row for the key, both calls
\* answered success, and the row has the status and marked_by of the call
\* whose upsert ran last.
C14_ConcurrentMarksLastWins ==
    TwoMarksDone
        => /\ \A c \in CallIds : calls[c].out.success
           /\ \E a \in attendance :
                  /\ RowsOf(attendance, 1, Today, 1) = {a}
                  /\ a.status = calls[LastWriter].status
                  /\ a.marked_by = calls[LastWriter].teacherId

\* call 2 (Absent) upserted first and call 1 (Present) last, into a table
\* that had no row for the key: the row says Present
C14_Witness ==
    /\ TwoMarksDone
    /\ calls[2].wrote = 1
    /\ calls[1].wrote = 2
    /\ calls[1].status = "P"
    /\ attendance = {AttendanceRow(1, 1, Today, "P", 1)}

\* the rows that reference a period
RowsOfPeriod(rows, periodId) == {a \in rows : a.period_id = periodId}

\* C15: while the admin's delete of a period interleaves with marks that
\* resolved the period, no attendance row ever references a period that
\* does not exist: an upsert that runs after the delete fails, the call
\* answers success = false and no row is written; a row upserted before the
\* delete is removed by the delete's cascade.
C15_DeleteAndMarkKeepReferences ==
    [][/\ \A a \in attendance' :
              a.period_id # NULL
                  => \E tp \in periods' : tp.id = a.period_id
       /\ \A c \in CallIds :
              /\ (/\ calls[c].pc = "upsert"
                  /\ calls[c].periodId \notin {tp.id : tp \in periods}
                  /\ MarkUpsert(c))
                    => /\ ~calls'[c].out.success
                       /\ calls'[c].out.error = "Failed to mark attendance"
                       /\ attendance' = attendance
              /\ (calls[c].pc = "delete" /\ DeleteExec(c))
                    => RowsOfPeriod(attendance', calls[c].periodId) = {}]_vars

\* the delete ran between the two statements of call 1's mark: the mark
\* failed and the table has no row
C15_Witness ==
    /\ calls[1].op = "mark"
    /\ calls[1].pc = "done"
    /\ calls[1].periodId = 1
    /\ calls[1].out = Response("mark", FALSE, 200,
                               "Failed to mark attendance", 0)
    /\ calls[2].op = "deletePeriod"
    /\ calls[2].out.success
    /\ calls[2].wrote = 1
    /\ calls[1].wrote = 2
    /\ periods = {}
    /\ attendance = {}

\* C16: there is at most one period-less attendance row per student and
\* date, in every state that bulk updates and marks reach, also when the
\* select-then-insert statements of two bulk updates interleave.
C16_OnePeriodlessRowPerDay ==
    \A s \in StudentIds, d \in Dates :
        Cardinality(RowsOf(attendance, s, d, NULL)) <= 1

\* C17: every attendance row that has a period was marked by the teacher
\* who teaches that period (marked_by = the period's teacher_id), in every
\* state reached by marks, bulk updates, saves of timetable periods (which
\* may reassign a period's teacher) and deletes of periods.
C17_MarkedByPeriodTeacher ==
    \A a \in attendance :
        a.period_id # NULL
            => \E tp \in periods :
                   tp.id = a.period_id /\ a.marked_by = tp.teacher_id

\* the statement the call is at raises a storage error: the CHECK on
\* status fails, or a foreign key of a row to insert
StatementFails(c) ==
    IF calls[c].op = "mark"
    THEN /\ calls[c].pc = "upsert"
         /\ \/ calls[c].status \notin ValidStatus
            \/ /\ RowsOf(attendance, calls[c].studentId, calls[c].date,
                         calls[c].periodId) = {}
               /\ \/ \A st \in students : st.id # calls[c].studentId
                  \/ \A tp \in periods : tp.id # calls[c].periodId
    ELSE /\ calls[c].op = "bulk"
         /\ calls[c].pc = "write"
         /\ LET change == calls[c].changes[calls[c].i]
            IN IF calls[c].existingRecord
               THEN /\ RowsOn(attendance, change.studentId, change.date) # {}
                    /\ change.status \notin ValidStatus
               ELSE \/ change.status \notin ValidStatus
                    \/ \A st \in students : st.id # change.studentId

\* C18: when a storage statement of a mark or of a bulk update fails, the
\* request ends there: the table is as before the statement, the call
\* answers a JSON body with success = false and an error message, and it
\* runs no statement afterwards (the failed statement is not retried).
C18_StorageFailureAnswered ==
    [][\A c \in CallIds :
           /\ (StatementFails(c) /\ calls'[c] # calls[c])
                 => /\ calls'[c].pc = "done"
                    /\ ~calls'[c].out.success
                    /\ calls'[c].out.error # ""
                    /\ resp' = calls'[c].out
                    /\ attendance' = attendance
           /\ calls[c].pc = "done" => calls'[c] = calls[c]]_vars

\* call 1's mark failed the CHECK on status and call 2's bulk update
\* failed on its second change, after the first was applied
C18_Witness ==
    /\ calls[1].op = "mark"
    /\ calls[1].pc = "done"
    /\ calls[1].status = "X"
    /\ calls[1].out = Response("mark", FALSE, 200,
                               "Failed to mark attendance", 0)
    /\ calls[2].op = "bulk"
    /\ calls[2].pc = "done"
    /\ calls[2].i = 2
    /\ calls[2].out = Response("bulk", FALSE, 500, "StorageError", 0)
    /\ \E a \in attendance : a.period_id = NULL

-----------------------------------------------------------------------------
(* The time resolver *)

\* the instant shifted to UTC+5:30 and by the configured offset
ShiftedInstant == now + 330 + timeOffset

\* the two characters of a number below 100, zero-padded
TwoDigits(n) == <<DigitChars[(n \div 10) + 1], DigitChars[(n % 10) + 1]>>

\* C19: at every instant and under every configured TIME_OFFSET_MINUTES,
\* getCurrentDayOfWeek is an integer in 1..7, never 0, and is the weekday
\* (Monday = 1 .. Sunday = 7) of the civil date at UTC+5:30 plus the
\* offset; getCurrentTime is the zero-padded 24-hour HH:MM of that same
\* shifted instant.
C19_ResolverDayAndTime ==
    LET civilDate == ShiftedInstant \div MinutesPerDay
        minuteOfDay == ShiftedInstant - civilDate * MinutesPerDay
    IN /\ getCurrentDayOfWeek \in 1..7
       /\ getCurrentDayOfWeek = Weekday(civilDate)
       /\ Len(getCurrentTime.text) = 5
       /\ getCurrentTime.text =
              TwoDigits(minuteOfDay \div 60) \o <<":">>
                  \o TwoDigits(minuteOfDay % 60)
       /\ page.view = "clock"
              => /\ page.currentDay = getCurrentDayOfWeek
                 /\ page.currentTime = getCurrentTime.text

\* the clock says 18:29 UTC of Saturday 1970-02-21 and the offset is one
\* minute: the resolver was read at 00:00 of the Sunday, day 7
C19_Witness ==
    /\ page.view = "clock"
    /\ now = 51 * MinutesPerDay + 1109
    /\ timeOffset = 1
    /\ page.currentDay = 7
    /\ page.currentTime = <<"0", "0", ":", "0", "0">>

-----------------------------------------------------------------------------
(* The student count of a class *)

\* C20: after any sequence of add-individual-student, bulk-add-students
\* and delete-student requests, also ones that fail part-way, the cached
\* total_students of each class equals the number of student rows of the
\* class.
C20_TotalStudentsIsTheCount ==
    \A c \in classes :
        c.total_students =
            Cardinality({s \in students : s.class_id = c.id})

-----------------------------------------------------------------------------
(* Statuses of the stored rows *)

\* the call carries a status that is neither empty nor P nor A
CarriesBadStatus(c) ==
    IF calls[c].op = "mark"
    THEN calls[c].status \notin ValidStatus
    ELSE /\ calls[c].op = "bulk"
         /\ \E i \in DOMAIN calls[c].changes :
                calls[c].changes[i].status \notin ValidStatus \cup {""}

\* the call is about to run a statement that has a row to write with a
\* status that is neither P nor A: the upsert of a mark, the insert of the
\* editor, or its update when the day's rows are still there
WritesBadStatus(c) ==
    \/ /\ calls[c].op = "mark"
       /\ calls[c].pc = "upsert"
       /\ calls[c].status \notin ValidStatus
    \/ /\ calls[c].op = "bulk"
       /\ calls[c].pc = "write"
       /\ calls[c].changes[calls[c].i].status \notin ValidStatus
       /\ \/ ~calls[c].existingRecord
          \/ SameDay(attendance, calls[c].changes[calls[c].i]) # {}

\* C21 (as stated): every attendance row has status P or A, and every
\* mark-attendance or bulk update that carries another non-empty status
\* answers success=false.
C21_BadStatusAlwaysRejected ==
    /\ \A a \in attendance : a.status \in ValidStatus
    /\ \A c \in CallIds :
           (CarriesBadStatus(c) /\ calls[c].pc = "done")
               => ~calls[c].out.success

\* C21 (amended): every attendance row of every reachable state has status
\* P or A; a statement of a mark or of a bulk update that has a row to
\* write with another status is refused by the storage, the call answers
\* success=false and the table is as it was.  (An UPDATE of the editor that
\* finds no row left writes nothing and is not refused.)
C21_StatusPresentOrAbsent ==
    [][ /\ \A a \in attendance' : a.status \in ValidStatus
        /\ \A c \in CallIds :
               (WritesBadStatus(c) /\ calls'[c] # calls[c])
                   => /\ calls'[c].pc = "done"
                      /\ ~calls'[c].out.success
                      /\ attendance' = attendance ]_vars

\* a mark and a bulk update with status X have both been refused, and the
\* table holds a row
C21_Witness ==
    /\ attendance # {}
    /\ \E c, d \in CallIds :
           /\ calls[c].op = "mark" /\ calls[c].status \notin ValidStatus
           /\ calls[c].pc = "done"
           /\ calls[c].out.error = "Failed to mark attendance"
           /\ calls[d].op = "bulk" /\ CarriesBadStatus(d)
           /\ calls[d].pc = "done"
           /\ calls[d].out.code = 500

-----------------------------------------------------------------------------
(* Requests of the history view over three weeks of reference dates *)

\* the dates a history request may select: 5 February to 25 February 1970
FirstWindowDate == 35
LastWindowDate == 55
WindowDates == {NULL} \cup (FirstWindowDate..LastWindowDate)

\* Sunday 15 February 1970 15:30 local; Monday 16 February 01:30 local,
\* which is Sunday 20:00 UTC
Sun1530 == 45 * MinutesPerDay + 600
Mon0130 == 45 * MinutesPerDay + 1200
WindowClocks == {Sun1530, Mon0130, Mon1000}

InitWindow ==
    /\ classes = {[id |-> 1, total_students |-> 2]}
    /\ students = {[id |-> 1, class_id |-> 1, roll_no |-> 2,
                    register_id |-> 1],
                   [id |-> 2, class_id |-> 1, roll_no |-> 1,
                    register_id |-> 2]}
    /\ periods = OnePeriod
    /\ attendance = {}
    /\ periodSeq = 2
    /\ now \in WindowClocks
    /\ timeOffset = DefaultTimeOffset
    /\ studentSeq = 2
    /\ resp = Response("start", TRUE, 200, "", 0)
    /\ page = NoPage
    /\ req \in [teacherId : TeacherIds, classId : ClassIds,
                changes : {<<>>}, period : HistoryViews,
                date : WindowDates]
    /\ calls = NoCalls

NextWindow ==
    AttendanceHistory(req.teacherId, req.classId, req.period, req.date)

SpecWindow == InitWindow /\ [][NextWindow]_vars

\* the reference date of the request: the selected date, or the local
\* calendar date of the clock when none is selected
ReferenceDate ==
    IF req.date # NULL THEN req.date
    ELSE (now + LocalOffsetMinutes) \div MinutesPerDay

\* C22: for view=week the window is the 7 consecutive dates from the Monday
\* on or before the reference date to the following Sunday; it contains
\* the reference date; for a Sunday it starts 6 days earlier; the
\* previous / next navigation dates are that Monday minus / plus 7 days.
C22_WeekWindowMondayToSunday ==
    (page.view = "history" /\ page.period = "week")
        => /\ Len(page.dates) = 7
           /\ \A i \in 1..6 : page.dates[i + 1] = page.dates[i] + 1
           /\ Weekday(page.dates[1]) = 1
           /\ Weekday(page.dates[7]) = 7
           /\ page.dates[1] <= ReferenceDate
           /\ ReferenceDate <= page.dates[7]
           /\ (Weekday(ReferenceDate) = 7
                  => page.dates[1] = ReferenceDate - 6)
           /\ page.startDate = page.dates[1]
           /\ page.endDate = page.dates[7]
           /\ page.prevDate = page.dates[1] - 7
           /\ page.nextDate = page.dates[1] + 7

\* the week view of a Sunday has been rendered
C22_Witness ==
    /\ page.view = "history"
    /\ page.period = "week"
    /\ req.date # NULL
    /\ Weekday(req.date) = 7
    /\ page.dates[1] = req.date - 6
    /\ page.prevDate = req.date - 13

-----------------------------------------------------------------------------
(* Overlapping periods *)

\* the periods of the class that match the current instant for the teacher
MatchingNow(classId, teacherId) ==
    {p \in periods : /\ p.class_id = classId
                     /\ p.teacher_id = teacherId
                     /\ ActiveNow(p)}

\* C23: when more than one period of the class matches the current instant
\* for the teacher, the matcher of mark-attendance returns the one with the
\* lowest period number, and the mark writes a row of that period only.
C23_LowestPeriodNumberWins ==
    [][\A t \in TeacherIds, c \in ClassIds, s \in StudentIds,
          st \in MarkStatuses :
          (/\ Cardinality(MatchingNow(c, t)) > 1
           /\ MarkAttendance(t, c, s, Today, st))
          => \E low \in MatchingNow(c, t) :
                 /\ \A q \in MatchingNow(c, t) \ {low} :
                        low.period_number < q.period_number
                 /\ TeacherCurrentPeriod(c, t) = {low}
                 /\ resp'.success
                 /\ \E a \in RowsOf(attendance', s, Today, low.id) :
                        a.status = st
                 /\ \A a \in attendance' \ attendance :
                        a.period_id = low.id
                 /\ {a \in attendance' : a.period_id # low.id} =
                        {a \in attendance : a.period_id # low.id}]_vars

\* two periods of one teacher match the instant, and the only row is a
\* successful mark against the one with the lower number
C23_Witness ==
    /\ resp = Response("mark", TRUE, 200, "", 0)
    /\ \E p, q \in periods :
           /\ p.period_number < q.period_number
           /\ {p, q} \subseteq MatchingNow(p.class_id, p.teacher_id)
           /\ attendance # {}
           /\ \A a \in attendance : a.period_id = p.id

-----------------------------------------------------------------------------
(* Requests of the bulk editor, statuses the table refuses among them, for *)
(* teachers with a lesson, with a break only, or with nothing in the class *)

\* teacher 1's lesson and a second period, a lesson or a break, of t2
LessonAndPeriod(t2, isBreak) ==
    {[tp EXCEPT !.is_break = (tp.id = 2 /\ isBreak)] : tp \in TwoPeriods(t2)}

\* the changes an editor request may carry
EditorChanges ==
    [studentId : StudentIds, date : {Today}, status : CallStatuses]

EditorLists == UNION {[1..n -> EditorChanges] : n \in 1..MaxChanges}

\* the tables the editor finds
EditorTables ==
    {{}, MarksToday(1), MarksToday(2),
     {AttendanceRow(2, NULL, Today, "P", 1)},
     {AttendanceRow(1, NULL, Today, "A", 1),
      AttendanceRow(1, 1, Today - 8, "A", 1)}}

InitEditor ==
    /\ classes = {[id |-> 1, total_students |-> 2]}
    /\ students = {[id |-> 1, class_id |-> 1, roll_no |-> 2,
                    register_id |-> 1],
                   [id |-> 2, class_id |-> 1, roll_no |-> 1,
                    register_id |-> 2]}
    /\ \E t2 \in PeriodTeachers, b \in BOOLEAN :
          periods = LessonAndPeriod(t2, b)
    /\ attendance \in EditorTables
    /\ periodSeq = 2
    /\ now = Mon1000
    /\ timeOffset = DefaultTimeOffset
    /\ studentSeq = 2
    /\ resp = Response("start", TRUE, 200, "", 0)
    /\ page = NoPage
    /\ req \in [teacherId : TeacherIds, classId : ClassIds,
                changes : EditorLists, period : {"full"}]
    /\ calls = NoCalls

NextEditor ==
    BulkUpdate(req.teacherId, req.classId, req.changes)

SpecEditor == InitEditor /\ [][NextEditor]_vars

\* C24: a bulk update of a teacher who teaches no non-break period of the
\* class is refused with status 403 and success=false, and no attendance
\* row is created, changed or deleted.
C24_UnassignedTeacherRefused ==
    [][(/\ ~\E p \in periods : /\ p.class_id = req.classId
                               /\ p.teacher_id = req.teacherId
                               /\ ~p.is_break
        /\ BulkUpdate(req.teacherId, req.classId, req.changes))
       => /\ resp'.code = 403
          /\ ~resp'.success
          /\ attendance' = attendance]_vars

\* a refused request of a teacher whose only period in the class is a
\* break, with changes that would have deleted or changed a stored row
C24_Witness ==
    /\ resp.op = "bulk"
    /\ resp.code = 403
    /\ \E p \in periods : p.teacher_id = req.teacherId /\ p.is_break
    /\ \E a \in attendance, i \in DOMAIN req.changes :
           /\ a.student_id = req.changes[i].studentId
           /\ a.date = req.changes[i].date
           /\ a.status # req.changes[i].status

\* the table after the first n changes of the request, applied in order
RECURSIVE AfterChanges(_, _)
AfterChanges(table, n) ==
    IF n = 0 THEN table
    ELSE ApplyChange(AfterChanges(table, n - 1), req.changes[n],
                     req.teacherId).rows

\* the storage refuses change k of the request, after accepting those
\* before it
FailsAt(table, k) ==
    /\ \A i \in 1..(k - 1) :
           ApplyChange(AfterChanges(table, i - 1), req.changes[i],
                       req.teacherId).ok
    /\ ~ApplyChange(AfterChanges(table, k - 1), req.changes[k],
                    req.teacherId).ok

\* C28: a bulk update applies its changes one at a time in list order with
\* no transaction: if the storage call of change k fails, the response is
\* success=false with status 500, changes 1..k-1 stay applied and changes
\* k..n are not applied; if none fails, all are applied in order.
C28_BulkUpdateStopsAtFailure ==
    [][(/\ TeacherAssignment(req.classId, req.teacherId)
        /\ BulkUpdate(req.teacherId, req.classId, req.changes))
       => /\ \A k \in DOMAIN req.changes :
                 FailsAt(attendance, k)
                     => /\ resp'.code = 500
                        /\ ~resp'.success
                        /\ attendance' = AfterChanges(attendance, k - 1)
          /\ (\A k \in DOMAIN req.changes : ~FailsAt(attendance, k))
                 => /\ resp'.success
                    /\ attendance' =
                           AfterChanges(attendance, Len(req.changes))]_vars

\* a request answered 500 whose first change, an insert, is in the table
\* and whose second change, refused, left the row of its student as it was
C28_Witness ==
    /\ resp.op = "bulk"
    /\ resp.code = 500
    /\ Len(req.changes) = 2
    /\ req.changes[2].status \notin ValidStatus \cup {""}
    /\ req.changes[1].studentId # req.changes[2].studentId
    /\ \E a \in attendance :
           /\ a.student_id = req.changes[1].studentId
           /\ a.date = req.changes[1].date
           /\ a.status = req.changes[1].status
           /\ a.period_id = NULL
           /\ a.marked_by = req.teacherId
    /\ \E a \in attendance :
           /\ a.student_id = req.changes[2].studentId
           /\ a.date = req.changes[2].date
           /\ a.status \in ValidStatus

\* C29: a bulk-update change with a non-empty status on a (student, date)
\* that already has attendance rows changes only the status of those rows:
\* their period_id, class_id and marked_by are as before, the number of
\* rows is as before, and the rows of other students or dates are
\* untouched.
C29_UpdateChangesStatusOnly ==
    [][\A day \in {RowsOn(attendance, req.changes[1].studentId,
                          req.changes[1].date)} :
          (/\ Len(req.changes) = 1
           /\ req.changes[1].status # ""
           /\ day # {}
           /\ TeacherAssignment(req.classId, req.teacherId)
           /\ BulkUpdate(req.teacherId, req.classId, req.changes))
          => /\ Cardinality(attendance') = Cardinality(attendance)
             /\ attendance \ day \subseteq attendance'
             /\ \A a \in day :
                    \E b \in attendance' :
                        /\ b.student_id = a.student_id
                        /\ b.date = a.date
                        /\ b.period_id = a.period_id
                        /\ b.class_id = a.class_id
                        /\ b.marked_by = a.marked_by
                        /\ b.copy = a.copy
                        /\ b.status = IF resp'.success
                                      THEN req.changes[1].status
                                      ELSE a.status]_vars

\* after a one-change request of teacher 1: the two rows of the student's
\* day, of two periods, have the new status, and one is still marked by
\* teacher 2
C29_Witness ==
    /\ resp = Response("bulk", TRUE, 200, "", 1)
    /\ Len(req.changes) = 1
    /\ \E a, b \in RowsOn(attendance, req.changes[1].studentId,
                          req.changes[1].date) :
           /\ a.period_id # b.period_id
           /\ a.status = req.changes[1].status
           /\ b.status = req.changes[1].status
           /\ b.marked_by # req.teacherId
           /\ a.marked_by = req.teacherId

-----------------------------------------------------------------------------
(* Two classes: student 1 is of class 1, taught by teacher 1; student 2 is *)
(* of class 2, taught by teacher 2                                         *)

BothClasses == {1, 2}

\* the student's class
ClassOf(studentId) ==
    {s.class_id : s \in {x \in students : x.id = studentId}}

\* teacher 1's lesson in class 1 and teacher 2's lesson in class 2, both
\* on Monday morning
OneLessonEach ==
    {[id |-> 1, class_id |-> 1, day_of_week |-> 1, period_number |-> 1,
      start_time |-> 540, end_time |-> 660, teacher_id |-> 1,
      is_break |-> FALSE],
     [id |-> 2, class_id |-> 2, day_of_week |-> 1, period_number |-> 1,
      start_time |-> 540, end_time |-> 660, teacher_id |-> 2,
      is_break |-> FALSE]}

\* a mark of student 2 by the teacher of class 2
MarkOfClassTwo ==
    [student_id |-> 2, class_id |-> 2, period_id |-> 2, date |-> Today,
     status |-> "P", marked_by |-> 2, copy |-> 1]

InitClasses ==
    /\ classes = {[id |-> c, total_students |-> 1] : c \in BothClasses}
    /\ students = {[id |-> c, class_id |-> c, roll_no |-> 1,
                    register_id |-> c] : c \in BothClasses}
    /\ periods = OneLessonEach
    /\ attendance \in {{}, {MarkOfClassTwo}}
    /\ periodSeq = 2
    /\ now = Mon1000
    /\ timeOffset = DefaultTimeOffset
    /\ studentSeq = 2
    /\ resp = Response("start", TRUE, 200, "", 0)
    /\ page = NoPage
    /\ req = NoRequest
    /\ calls = NoCalls

NextClasses ==
    \/ \E t \in TeacherIds, c \in BothClasses, s \in StudentIds,
          st \in MarkStatuses : MarkAttendance(t, c, s, Today, st)
    \/ \E t \in TeacherIds, c \in BothClasses, s \in StudentIds,
          st \in BulkStatuses :
          BulkUpdate(t, c, <<[studentId |-> s, date |-> Today,
                              status |-> st]>>)

SpecClasses == InitClasses /\ [][NextClasses]_vars

\* C25: a bulk update for classId creates, changes or deletes attendance
\* rows only of students of classId: a change whose studentId is a student
\* of another class leaves that student's attendance as it was.
C25_BulkUpdateStaysInClass ==
    [][\A t \in TeacherIds, c \in BothClasses, s \in StudentIds,
          st \in BulkStatuses :
          (/\ ClassOf(s) # {c}
           /\ BulkUpdate(t, c, <<[studentId |-> s, date |-> Today,
                                  status |-> st]>>))
          => RowsOfStudent(attendance', s) = RowsOfStudent(attendance, s)
      ]_vars

\* C26: in every reachable state, the class_id of every attendance row is
\* the class of the student the row references, for the rows written by
\* mark-attendance and for the period-less rows inserted by bulk update.
C26_RowClassIsStudentClass ==
    \A a \in attendance : ClassOf(a.student_id) = {a.class_id}

\* C27: for every attendance row that has a period, the weekday of the
\* row's date is the period's day_of_week.
C27_RowDateOnPeriodDay ==
    \A a \in attendance :
        \A p \in periods :
            p.id = a.period_id => Weekday(a.date) = p.day_of_week

\* C30: after either class-delete operation answers success=true, no class
\* row, student, timetable period or attendance row of the class remains;
\* when it answers success=false, the class, its students, its periods and
\* its attendance are all as before.
C30_ClassDeleteAllOrNothing ==
    [][\A c \in ClassIds :
          (DeleteClassApi(c) \/ DeleteClass(c))
          => IF resp'.success
             THEN /\ ~\E x \in classes' : x.id = c
                  /\ ~\E s \in students' : s.class_id = c
                  /\ ~\E tp \in periods' : tp.class_id = c
                  /\ ~\E a \in attendance' :
                         \/ a.class_id = c
                         \/ \E s \in students :
                                s.class_id = c /\ a.student_id = s.id
             ELSE /\ classes' = classes
                  /\ students' = students
                  /\ periods' = periods
                  /\ attendance' = attendance]_vars

=============================================================================
